---- MODULE Spec2Model ----
(***************************************************************************)
(* memory-book: the storybook pipeline (src/src/main.py), its API clients  *)
(* (src/src/api_clients.py) and the PDF layout engine                      *)
(* (src/src/book_assembler.py) as one state machine.                       *)
(*                                                                         *)
(* Text is a sequence of one-character strings.  A file path is a sequence *)
(* of name tokens ("temp_image_", "0", ".", "png"); every path lives in the    *)
(* working directory, so os.path.dirname is "" and os.path.join(dir, name) *)
(* is the name.  The file system fs maps each existing path to the content *)
(* of the file.  None (a missing path) is the empty sequence, which Python *)
(* treats as false exactly like the empty string.                          *)
(***************************************************************************)
EXTENDS Integers, Sequences, FiniteSets, TLC

VARIABLES
    pc,                     \* position of the program
    exitCode,               \* sys.exit status, -1 while none
    envKey,                 \* os.environ has GEMINI_API_KEY when main is imported
    GEMINI_API_KEY,         \* api_clients.GEMINI_API_KEY (module global)
    story_inputs,           \* main: what get_user_input returned
    story_text,             \* main: local
    cover_image_path,       \* main: local
    image_list,             \* main: local
    story_pages,            \* get_images_from_api: local
    generated_image_paths,  \* get_images_from_api: local
    i_api,                  \* get_images_from_api: loop index i
    fs,                     \* the working directory: path -> file content
    trace,                  \* history of calls, returns, requests and raises
    returned,               \* history: what each stage returned to main
    args,                   \* create_pdf: its parameters
    text_pages,             \* create_pdf: local
    i_pdf,                  \* create_pdf: loop index i
    styled_img_path,        \* create_pdf: local
    pages,                  \* the FPDF document: the pages added so far
    page_count,             \* PDF._page_count
    footers,                \* history: every evaluation of PDF.footer()
    created,                \* history: files style_image_organic saved in this call
    fs0,                    \* history: fs when create_pdf was entered
    result,                 \* create_pdf: "none" while running, then "True" / "False"
    raised,                 \* history: an exception was raised inside create_pdf
    outputCalled,           \* history: pdf.output(output_filename) completed
    fault,                  \* the injected failure of the run's environment
    replyLog,               \* history: the replies of the image model, when kept
    font,                   \* calculate_optimal_font_size: parameters and locals
    fit,                    \* create_pdf 179-194: the image size and its placement
    clean,                  \* get_story_from_gemini 35-42: response.text and clean_text
    theme,                  \* create_pdf 133-161: theme_color, rgb_color and the fill drawn
    filename,               \* main 87-144: protagonist and output_filename
    runs,                   \* two pipeline runs in one working directory
    block                   \* create_pdf 203-219: the text block of a story page

vars == <<pc, exitCode, envKey, GEMINI_API_KEY, story_inputs, story_text,
          cover_image_path, image_list, story_pages, generated_image_paths,
          i_api, fs, trace, returned, args, text_pages, i_pdf,
          styled_img_path, pages, page_count, footers, created, fs0, result,
          raised, outputCalled, fault, replyLog, font, fit, clean, theme,
          filename, runs, block>>

\* the variables of the pipeline and of the functions settled with it
piped == <<pc, exitCode, envKey, GEMINI_API_KEY, story_inputs, story_text,
           cover_image_path, image_list, story_pages, generated_image_paths,
           i_api, fs, trace, returned, args, text_pages, i_pdf,
           styled_img_path, pages, page_count, footers, created, fs0, result,
           raised, outputCalled, fault, replyLog, font, fit>>

\* the variables only a function called on its own uses
direct == <<clean, theme, filename, runs, block>>

----------------------------------------------------------------------------
(* Bounds of the model. *)

\* longest story text (characters) the model draws
MaxTextLen == 3
\* longest image_list a direct caller of create_pdf passes
MaxImages == 2
\* most parts in one reply of the image model
MaxParts == 2
\* most lines the text of a page wraps to, at any font size
MaxLines == 3
\* largest width and height (pixels) of an image whose placement is computed
MaxPx == 10
\* longest protagonist name (characters) drawn besides the example of the tests
MaxNameLen == 3
\* most lines the text of a story page wraps to when create_pdf draws it
MaxWrapLines == 9

----------------------------------------------------------------------------
(* Values. *)

NL == "\n"
None == << >>

\* the typographic characters the story clean-up replaces, each one character
\* of the text: U+2026, U+2019, U+2018, U+201C, U+201D, U+2014
Ellipsis == "U+2026"
RightSingleQuote == "U+2019"
LeftSingleQuote == "U+2018"
LeftDoubleQuote == "U+201C"
RightDoubleQuote == "U+201D"
EmDash == "U+2014"

\* all sequences over S of length at most n
SeqUpTo(S, n) == UNION {[1..m -> S] : m \in 0..n}

Min(a, b) == IF a < b THEN a ELSE b

\* the elements of a sequence
Range(s) == {s[j] : j \in 1..Len(s)}

\* str(i) for the page indices the model reaches
IdxStr(i) == <<"0", "1", "2", "3", "4", "5", "6", "7", "8", "9">>[i + 1]

----------------------------------------------------------------------------
(* Python's str.split('\n\n') and str.replace. *)

RECURSIVE SplitFrom(_, _, _, _)
SplitFrom(text, j, cur, acc) ==
    IF j > Len(text) THEN Append(acc, cur)
    ELSE IF j < Len(text) /\ text[j] = NL /\ text[j + 1] = NL
         THEN SplitFrom(text, j + 2, << >>, Append(acc, cur))
         ELSE SplitFrom(text, j + 1, Append(cur, text[j]), acc)

\* text.split('\n\n'): never empty, "" gives ['']
Split(text) == SplitFrom(text, 1, << >>, << >>)

RECURSIVE Replace(_, _, _)
\* text.replace(ch, rep) for a one-character ch
Replace(text, ch, rep) ==
    IF text = << >> THEN << >>
    ELSE (IF Head(text) = ch THEN rep ELSE <<Head(text)>>)
         \o Replace(Tail(text), ch, rep)

\* a mutant of CleanText: the em-dash is replaced by one hyphen and then the
\* hyphens are turned back into em-dashes
CleanTextDashBack(t) ==
    LET t1 == Replace(t, Ellipsis, <<".", ".", ".">>)
        t2 == Replace(t1, RightSingleQuote, <<"'">>)
        t3 == Replace(t2, LeftSingleQuote, <<"'">>)
        t4 == Replace(t3, LeftDoubleQuote, <<"\"">>)
        t5 == Replace(t4, RightDoubleQuote, <<"\"">>)
    IN  Replace(Replace(t5, EmDash, <<"-">>), "-", <<EmDash>>)

\* the clean-up of the story response
CleanText(t) ==
    LET t1 == Replace(t, Ellipsis, <<".", ".", ".">>)
        t2 == Replace(t1, RightSingleQuote, <<"'">>)
        t3 == Replace(t2, LeftSingleQuote, <<"'">>)
        t4 == Replace(t3, LeftDoubleQuote, <<"\"">>)
        t5 == Replace(t4, RightDoubleQuote, <<"\"">>)
    IN  Replace(t5, EmDash, <<"-", "-">>)

----------------------------------------------------------------------------
(* Files, image data and the replies of the image model. *)

\* the bytes of an image: where they came from (src, page), whether PIL can
\* decode them ("ok"), decodes them to fewer than 40 pixels on a side
\* ("small") or cannot decode them ("corrupt"), and whether they are the
\* masked copy style_image_organic saved
Data(src, page, q) == [src |-> src, page |-> page, q |-> q, styled |-> FALSE]

\* os.path.exists
Exists(files, path) == path \in DOMAIN files

\* open(path, 'wb') followed by f.write(data)
WriteFile(files, path, data) == (path :> data) @@ files

\* os.remove
RemoveFile(files, path) == [q \in DOMAIN files \ {path} |-> files[q]]

\* one part of a reply: inline_data (with its mime_type, split on '/') or text
TextPart == [inline |-> FALSE, mime |-> << >>, q |-> "ok"]
ImagePart(mime, q) == [inline |-> TRUE, mime |-> mime, q |-> q]

Parts ==
    {TextPart, ImagePart(<<"image", "png">>, "ok"),
     ImagePart(<<"image", "jpeg">>, "ok"),
     ImagePart(<<"image", "png">>, "corrupt")}

\* response.parts of one reply
Replies == SeqUpTo(Parts, MaxParts)

\* a mutant of FirstInline: the loop keeps the last part with inline data
LastInline(parts) ==
    IF \E j \in 1..Len(parts) : parts[j].inline
    THEN CHOOSE j \in 1..Len(parts) :
             parts[j].inline /\ \A l \in (j + 1)..Len(parts) : ~parts[l].inline
    ELSE 0

\* for part in response.parts: if part.inline_data: ... return / break
\* the index of the part the loop stops at, 0 when it runs to the end
FirstInline(parts) ==
    IF \E j \in 1..Len(parts) : parts[j].inline
    THEN CHOOSE j \in 1..Len(parts) :
             parts[j].inline /\ \A l \in 1..(j - 1) : ~parts[l].inline
    ELSE 0

\* f".{image_data.mime_type.split('/')[-1]}"
FileExtension(mime) == <<".", mime[Len(mime)]>>

\* a mutant of CoverFilename: the extension is the type, not the subtype
CoverFilenameType(mime) == <<"cover_pattern", ".", mime[1]>>

\* "cover_pattern" + file_extension
CoverFilename(mime) == <<"cover_pattern">> \o FileExtension(mime)

\* a mutant of TempImageFilename: the page index is left out of the name
TempImageFilenameNoIndex(i, mime) == <<"temp_image_", IdxStr(0)>> \o FileExtension(mime)

\* f"temp_image_{i}{file_extension}"
TempImageFilename(i, mime) == <<"temp_image_", IdxStr(i)>> \o FileExtension(mime)

\* what the open/write pair of a client does to the disk: it succeeds, open
\* raises (nothing is created), or write raises after open created the file
WriteOutcomes == {"ok", "open_raises", "write_raises"}

FsAfterWrite(files, path, data, w) ==
    CASE w = "ok" -> WriteFile(files, path, data)
      [] w = "open_raises" -> files
      [] w = "write_raises" -> WriteFile(files, path, [data EXCEPT !.q = "corrupt"])

\* an entry of the history
Ev(ev, fn, page) == [ev |-> ev, fn |-> fn, page |-> page]

\* the reply history: kept (on) by the specifications of the clients alone
NoLog == [on |-> FALSE, log |-> << >>]
EmptyLog == [on |-> TRUE, log |-> << >>]
Log(rl, fn, page, parts) ==
    IF rl.on
    THEN [rl EXCEPT !.log = Append(@, [fn |-> fn, page |-> page, parts |-> parts])]
    ELSE rl

\* calculate_optimal_font_size and the placement arithmetic while not running
FontIdle == [pc |-> "idle", max_height |-> 0, size |-> 0, tried |-> << >>,
             ret |-> << >>]
FitIdle == [pc |-> "idle", w |-> 0, h |-> 0, placed |-> << >>]

\* the clean-up of a response while not running
CleanIdle == [pc |-> "idle", text |-> << >>, clean_text |-> << >>, again |-> << >>]

\* the theme colour of create_pdf while not running
ThemeIdle == [pc |-> "idle", theme_color |-> << >>, rgb_color |-> << >>, fill |-> << >>]

\* the output file name of main while not computed
FilenameIdle == [pc |-> "idle", protagonist |-> << >>, output_filename |-> << >>]

\* no concurrent runs
RunsIdle == << >>

\* the text block of create_pdf while not running
BlockIdle ==
    [pc |-> "idle", size |-> 0, num_lines |-> 0, opt_size |-> 0,
     line_height |-> 0, block_height |-> 0, text_y_start |-> 0]

\* no function is called on its own
DirectIdle ==
    /\ clean = CleanIdle
    /\ theme = ThemeIdle
    /\ filename = FilenameIdle
    /\ runs = RunsIdle
    /\ block = BlockIdle

----------------------------------------------------------------------------
(* main.py: the pre-flight check and the user's input. *)

\* a mutant of Preflight: a missing key is only warned about, as api_clients
\* does on import, and the program goes on
PreflightWarnOnly ==
    /\ pc = "preflight"
    /\ pc' = "input"
    /\ UNCHANGED <<exitCode, envKey, GEMINI_API_KEY, story_inputs, story_text,
                   cover_image_path, image_list, story_pages,
                   generated_image_paths, i_api, fs, trace, returned, args,
                   text_pages, i_pdf, styled_img_path, pages, page_count,
                   footers, created, fs0, result, raised, outputCalled, fault,
                   replyLog, font, fit, direct>>

\* main.py, import time: if not os.environ.get("GEMINI_API_KEY"): sys.exit(1)
Preflight ==
    /\ pc = "preflight"
    /\ IF envKey
       THEN pc' = "input" /\ exitCode' = exitCode
       ELSE pc' = "exit" /\ exitCode' = 1
    /\ UNCHANGED <<envKey, GEMINI_API_KEY, story_inputs, story_text,
                   cover_image_path, image_list, story_pages,
                   generated_image_paths, i_api, fs, trace, returned, args,
                   text_pages, i_pdf, styled_img_path, pages, page_count,
                   footers, created, fs0, result, raised, outputCalled, fault,
                   replyLog, font, fit, direct>>

\* ask(prompt, default): return resp if resp else default
ask(resp, default) == IF resp # << >> THEN resp ELSE default

\* what the user types for the end message; the default is never empty
EndMessageInputs == {<< >>, <<"E">>}
DefaultEndMessage == <<"M">>

GetUserInput ==
    /\ pc = "input"
    /\ \E resp \in EndMessageInputs :
           story_inputs' = [end_message |-> ask(resp, DefaultEndMessage)]
    /\ pc' = "story"
    /\ UNCHANGED <<exitCode, envKey, GEMINI_API_KEY, story_text,
                   cover_image_path, image_list, story_pages,
                   generated_image_paths, i_api, fs, trace, returned, args,
                   text_pages, i_pdf, styled_img_path, pages, page_count,
                   footers, created, fs0, result, raised, outputCalled, fault,
                   replyLog, font, fit, direct>>

----------------------------------------------------------------------------
(* Story stage: main.py 108-114 around api_clients.get_story_from_gemini. *)

\* response.text of the text model
Responses == SeqUpTo({NL, EmDash}, MaxTextLen)

\* a mutant of MainOnStoryFailure: carry on with an empty story
MainOnStoryFailureContinue == [pc |-> "cover", exitCode |-> -1]

\* main: except Exception: print(...); sys.exit(1)
MainOnStoryFailure == [pc |-> "exit", exitCode |-> 1]

\* what the deprecated variant of the function returned instead of raising
Placeholder == <<"placeholder">>

\* get_story_from_gemini returns text to main, which goes on to the cover
StoryReturns(text, events) ==
    /\ story_text' = text
    /\ returned' = [returned EXCEPT !.story = text]
    /\ trace' = trace \o <<Ev("call", "get_story_from_gemini", 0)>> \o events
                      \o <<Ev("ret", "get_story_from_gemini", 0)>>
    /\ pc' = "cover"
    /\ exitCode' = exitCode

\* get_story_from_gemini raises, and main handles the exception
StoryRaises(events) ==
    /\ trace' = trace \o <<Ev("call", "get_story_from_gemini", 0)>> \o events
                      \o <<Ev("raise", "get_story_from_gemini", 0)>>
    /\ pc' = MainOnStoryFailure.pc
    /\ exitCode' = MainOnStoryFailure.exitCode
    /\ UNCHANGED <<story_text, returned>>

\* a mutant of StoryFailure: the deprecated variant, a placeholder is returned
StoryFailurePlaceholder(events) == StoryReturns(Placeholder, events)

\* a mutant of StoryFailure: the failure is swallowed, an empty text returned
StoryFailureEmpty(events) == StoryReturns(<< >>, events)

\* raise ValueError(...) without the key, raise e when the call failed
StoryFailure(events) == StoryRaises(events)

get_story_from_gemini ==
    /\ pc = "story"
    /\ \/ \* if not GEMINI_API_KEY: raise ValueError
          /\ ~GEMINI_API_KEY
          /\ StoryFailure(<< >>)
       \/ \* generate_content raises: except Exception as e: raise e
          /\ GEMINI_API_KEY
          /\ StoryFailure(<<Ev("req", "story", 0), Ev("throw", "story", 0)>>)
       \/ \* the response arrives and is cleaned
          /\ GEMINI_API_KEY
          /\ \E t \in Responses :
                 StoryReturns(CleanText(t), <<Ev("req", "story", 0)>>)
    /\ UNCHANGED <<envKey, GEMINI_API_KEY, story_inputs, cover_image_path,
                   image_list, story_pages, generated_image_paths, i_api, fs,
                   args, text_pages, i_pdf, styled_img_path, pages,
                   page_count, footers, created, fs0, result, raised,
                   outputCalled, fault,
                   replyLog, font, fit, direct>>

----------------------------------------------------------------------------
(* Cover stage: main.py 117-126 around api_clients.get_cover_image. *)

\* a mutant of MainAfterCover: a missing cover ends the run
MainAfterCoverFatal(path) == IF path = None THEN "exit" ELSE "images"

\* main.py 120-123: main prints one of two messages and goes on either way
MainAfterCover(path) == "images"

\* get_cover_image returns path to main, which goes on to the illustrations
CoverReturns(path, events) ==
    /\ cover_image_path' = path
    /\ returned' = [returned EXCEPT !.cover = path]
    /\ trace' = trace \o <<Ev("call", "get_cover_image", 0)>> \o events
                      \o <<Ev("ret", "get_cover_image", 0)>>
    /\ pc' = MainAfterCover(path)

get_cover_image ==
    /\ pc = "cover"
    /\ \/ \* if not GEMINI_API_KEY: return None
          /\ ~GEMINI_API_KEY
          /\ CoverReturns(None, << >>)
          /\ UNCHANGED <<fs, replyLog>>
       \/ \* generate_content raises: except Exception: return None
          /\ GEMINI_API_KEY
          /\ CoverReturns(None, <<Ev("req", "cover", 0), Ev("throw", "cover", 0)>>)
          /\ UNCHANGED <<fs, replyLog>>
       \/ \* a reply: the first part with inline data is written and returned
          /\ GEMINI_API_KEY
          /\ \E parts \in Replies, w \in WriteOutcomes :
                 LET j == FirstInline(parts) IN
                 /\ replyLog' = Log(replyLog, "cover", 0, parts)
                 /\ IF j = 0
                    THEN /\ CoverReturns(None, <<Ev("req", "cover", 0)>>)
                         /\ fs' = fs
                    ELSE LET name == CoverFilename(parts[j].mime)
                             data == Data("cover", 0, parts[j].q)
                         IN  /\ fs' = FsAfterWrite(fs, name, data, w)
                             /\ IF w = "ok"
                                THEN CoverReturns(name, <<Ev("req", "cover", 0)>>)
                                ELSE CoverReturns(None,
                                         <<Ev("req", "cover", 0),
                                           Ev("writefail", "cover", 0)>>)
    /\ UNCHANGED <<exitCode, envKey, GEMINI_API_KEY, story_inputs, story_text,
                   image_list, story_pages, generated_image_paths, i_api,
                   args, text_pages, i_pdf, styled_img_path, pages,
                   page_count, footers, created, fs0, result, raised,
                   outputCalled, fault,
                   font, fit, direct>>

----------------------------------------------------------------------------
(* Illustration stage: main.py 129-140 around get_images_from_api. *)

\* get_images_from_api returns list to main, which goes on to create_pdf
ImagesReturn(list, events) ==
    /\ image_list' = list
    /\ returned' = [returned EXCEPT !.images = list]
    /\ trace' = trace \o events \o <<Ev("ret", "get_images_from_api", 0)>>
    /\ pc' = "pdf_call"

\* api_clients.py 92-135: the key check, the split, the empty check and the
\* chat session (GenerativeModel and start_chat build local objects)
get_images_from_api ==
    /\ pc = "images"
    /\ IF ~GEMINI_API_KEY
       THEN /\ ImagesReturn(<< >>, <<Ev("call", "get_images_from_api", 0)>>)
            /\ UNCHANGED <<story_pages, generated_image_paths, i_api>>
       ELSE /\ story_pages' = Split(story_text)
            /\ generated_image_paths' = << >>
            /\ i_api' = 0
            /\ IF Split(story_text) = << >>
               THEN ImagesReturn(<< >>, <<Ev("call", "get_images_from_api", 0)>>)
               ELSE /\ trace' = trace \o <<Ev("call", "get_images_from_api", 0),
                                           Ev("session", "start_chat", 0)>>
                    /\ pc' = "scene"
                    /\ UNCHANGED <<image_list, returned>>
    /\ UNCHANGED <<exitCode, envKey, GEMINI_API_KEY, story_inputs, story_text,
                   cover_image_path, fs, args, text_pages, i_pdf,
                   styled_img_path, pages, page_count, footers, created, fs0,
                   result, raised, outputCalled, fault,
                   replyLog, font, fit, direct>>

\* a mutant of AfterSceneFailure: swallow the failure and go on with the next page
AfterSceneFailureContinue(i, n) ==
    [pc |-> IF i + 1 < n THEN "scene" ELSE "images_return", i |-> i + 1]

\* an exception inside the for loop leaves it: except Exception: pass
AfterSceneFailure(i, n) == [pc |-> "images_return", i |-> i]

\* the for loop takes the next page, or ends
AfterScene(i, n) ==
    [pc |-> IF i + 1 < n THEN "scene" ELSE "images_return", i |-> i + 1]

\* api_clients.py 137-158: one iteration of the loop over story_pages
SendScene ==
    /\ pc = "scene"
    /\ i_api < Len(story_pages)
    /\ LET n == Len(story_pages)
           req == Ev("req", "scene", i_api)
       IN
       \/ \* chat.send_message raises
          /\ trace' = trace \o <<req, Ev("throw", "scene", i_api)>>
          /\ pc' = AfterSceneFailure(i_api, n).pc
          /\ i_api' = AfterSceneFailure(i_api, n).i
          /\ UNCHANGED <<fs, generated_image_paths, replyLog>>
       \/ \* a reply
          \E parts \in Replies, w \in WriteOutcomes :
              LET j == FirstInline(parts) IN
              /\ replyLog' = Log(replyLog, "scene", i_api, parts)
              /\ IF j = 0
                 THEN \* if not image_found: a warning
                      /\ trace' = trace \o <<req>>
                      /\ pc' = AfterScene(i_api, n).pc
                      /\ i_api' = AfterScene(i_api, n).i
                      /\ UNCHANGED <<fs, generated_image_paths>>
                 ELSE LET name == TempImageFilename(i_api, parts[j].mime)
                          data == Data("scene", i_api, parts[j].q)
                      IN  /\ fs' = FsAfterWrite(fs, name, data, w)
                          /\ IF w = "ok"
                             THEN /\ generated_image_paths' =
                                         Append(generated_image_paths, name)
                                  /\ trace' = trace \o <<req>>
                                  /\ pc' = AfterScene(i_api, n).pc
                                  /\ i_api' = AfterScene(i_api, n).i
                             ELSE /\ trace' = trace \o
                                         <<req, Ev("writefail", "scene", i_api)>>
                                  /\ pc' = AfterSceneFailure(i_api, n).pc
                                  /\ i_api' = AfterSceneFailure(i_api, n).i
                                  /\ UNCHANGED generated_image_paths
    /\ UNCHANGED <<exitCode, envKey, GEMINI_API_KEY, story_inputs, story_text,
                   cover_image_path, image_list, story_pages, returned, args,
                   text_pages, i_pdf, styled_img_path, pages, page_count,
                   footers, created, fs0, result, raised, outputCalled, fault,
                   font, fit, direct>>

\* api_clients.py 164: return generated_image_paths
ReturnImages ==
    /\ pc = "images_return"
    /\ ImagesReturn(generated_image_paths, << >>)
    /\ UNCHANGED <<exitCode, envKey, GEMINI_API_KEY, story_inputs, story_text,
                   cover_image_path, story_pages, generated_image_paths,
                   i_api, fs, args, text_pages, i_pdf, styled_img_path,
                   pages, page_count, footers, created, fs0, result, raised,
                   outputCalled, fault,
                   replyLog, font, fit, direct>>

----------------------------------------------------------------------------
(* book_assembler.py: PDF, style_image_organic and create_pdf. *)

\* what fails in the environment of one render: nothing, the PDF object,
\* img.save of the styled copy, Image.open of the styled copy, pdf.image of
\* an illustration, os.remove of the styled copy, or pdf.output
Faults == {"none", "ctor", "save", "open", "draw", "remove", "output"}

\* PDF.footer: the number it draws for the page being closed, 0 for none
\* if self.page_no() > 1 and self.page_no() < self.page_count: cell(page_no - 1)
footer(page_no, count) == IF page_no > 1 /\ page_no < count THEN page_no - 1 ELSE 0

\* FPDF closes the current page, if any, by evaluating footer() for it; this
\* happens in add_page() before the new page starts and in output()
ClosePage(fts, pgs, count) ==
    IF Len(pgs) > 0
    THEN Append(fts, [page |-> Len(pgs), number |-> footer(Len(pgs), count)])
    ELSE fts

\* a page of the document: its kind, for a story page its segment index and
\* text, what fills it, the white frame block every story page gets, and the
\* image placed on it (none: the empty sequence)
Page(kind, seg, fill, img) ==
    [kind |-> kind, seg |-> seg, fill |-> fill, frame |-> (kind = "story"),
     img |-> img, text |-> << >>]

\* if cover_image_path and os.path.exists(cover_image_path)
HasCover(files, a) ==
    a.cover_image_path # None /\ Exists(files, a.cover_image_path)

\* a mutant of CoverRaises: pdf.image is reached with a path that is no file
CoverRaisesOnMissing(files, a) ==
    /\ a.cover_image_path # None
    /\ \/ ~Exists(files, a.cover_image_path)
       \/ files[a.cover_image_path].q = "corrupt"

\* pdf.image(cover_image_path, ...) decodes the file and raises on bad data
CoverRaises(files, a) ==
    HasCover(files, a) /\ files[a.cover_image_path].q = "corrupt"

\* the front or back cover page: the cover image, else the theme colour
CoverPage(kind, files, a) ==
    IF HasCover(files, a) /\ ~CoverRaises(files, a)
    THEN Page(kind, -1, "image", <<files[a.cover_image_path]>>)
    ELSE Page(kind, -1, "theme", << >>)

\* "organic_" in styled_img_path
HasOrganic(path) == \E j \in 1..Len(path) : path[j] = "organic_"

\* os.path.join(dir_name, f"organic_{base_name}")
OrganicName(path) == <<"organic_">> \o path

\* style_image_organic: Image.open raises on a missing file or bad data, create_rough_mask
\* raises when width // 40 or height // 40 is 0, img.save may fail; the
\* except branch returns image_path itself
style_image_organic(files, image_path, flt) ==
    IF \/ ~Exists(files, image_path)
       \/ files[image_path].q \in {"corrupt", "small"}
       \/ flt = "save"
    THEN [path |-> image_path, fs |-> files, saved |-> {}]
    ELSE [path |-> OrganicName(image_path),
          fs |-> WriteFile(files, OrganicName(image_path),
                           [files[image_path] EXCEPT !.styled = TRUE]),
          saved |-> {OrganicName(image_path)}]

\* a mutant of OnException: the exception leaves create_pdf
OnExceptionPropagate == [pc |-> "pdf_crashed", result |-> "none"]

\* except Exception as e: print(...); return False
OnException == [pc |-> "pdf_returned", result |-> "False"]

\* an exception inside the try block of create_pdf
Raise ==
    /\ raised' = TRUE
    /\ pc' = OnException.pc
    /\ result' = OnException.result

\* a mutant of StoryPageCount: one page per (text, image) pair
StoryPageCountZip(tp, il) == Min(Len(tp), Len(il))

\* for i, text_page in enumerate(text_pages): the number of iterations
StoryPageCount(tp, il) == Len(tp)

\* the loop head: another story page, or the back cover
LoopNext(i, tp, il) == IF i < StoryPageCount(tp, il) THEN "pdf_page" ELSE "pdf_back"

\* a mutant of ImageAvailable: the entry is used without looking for the file
ImageAvailableNoExists(files, il, i) == i < Len(il)

\* if i < len(image_list) and os.path.exists(image_list[i])
ImageAvailable(files, il, i) == i < Len(il) /\ Exists(files, il[i + 1])

\* create_pdf 127-154: the PDF object, the front cover, the title, the split
PdfFrontCover ==
    /\ pc = "pdf_begin"
    /\ IF fault = "ctor"
       THEN /\ Raise
            /\ UNCHANGED <<pages, text_pages>>
       ELSE /\ pages' = <<CoverPage("cover", fs, args)>>
            /\ IF CoverRaises(fs, args)
               THEN Raise /\ UNCHANGED text_pages
               ELSE /\ text_pages' = Split(args.story_text)
                    /\ pc' = LoopNext(0, Split(args.story_text), args.image_list)
                    /\ UNCHANGED <<raised, result>>
    /\ page_count' = 0
    /\ i_pdf' = 0
    /\ UNCHANGED <<exitCode, envKey, GEMINI_API_KEY, story_inputs, story_text,
                   cover_image_path, image_list, story_pages,
                   generated_image_paths, i_api, fs, trace, returned, args,
                   styled_img_path, footers, created, fs0, outputCalled, fault,
                   replyLog, font, fit, direct>>

\* create_pdf 156-176: add_page, background, white frame, the image test
PdfAddStoryPage ==
    /\ pc = "pdf_page"
    /\ footers' = ClosePage(footers, pages, page_count)
    /\ pages' = Append(pages, Page("story", i_pdf, "theme", << >>))
    /\ pc' = IF ImageAvailable(fs, args.image_list, i_pdf)
             THEN "pdf_style" ELSE "pdf_text"
    /\ UNCHANGED <<exitCode, envKey, GEMINI_API_KEY, story_inputs, story_text,
                   cover_image_path, image_list, story_pages,
                   generated_image_paths, i_api, fs, trace, returned, args,
                   text_pages, i_pdf, styled_img_path, page_count, created,
                   fs0, result, raised, outputCalled, fault,
                   replyLog, font, fit, direct>>

\* create_pdf 177: styled_img_path = style_image_organic(image_list[i])
PdfStyleImage ==
    /\ pc = "pdf_style"
    /\ LET st == style_image_organic(fs, args.image_list[i_pdf + 1], fault) IN
           /\ styled_img_path' = st.path
           /\ fs' = st.fs
           /\ created' = created \cup st.saved
    /\ pc' = "pdf_place"
    /\ UNCHANGED <<exitCode, envKey, GEMINI_API_KEY, story_inputs, story_text,
                   cover_image_path, image_list, story_pages,
                   generated_image_paths, i_api, trace, returned, args,
                   text_pages, i_pdf, pages, page_count, footers, fs0, result,
                   raised, outputCalled, fault,
                   replyLog, font, fit, direct>>

\* create_pdf 179-201: read the size, place the image, remove the styled copy
PdfPlaceImage ==
    /\ pc = "pdf_place"
    /\ IF \/ fault = "open"
          \/ ~Exists(fs, styled_img_path)
          \/ fs[styled_img_path].q = "corrupt"
       THEN \* with Image.open(styled_img_path) raises
            Raise /\ UNCHANGED <<pages, fs>>
       ELSE IF fault = "draw"
       THEN \* pdf.image raises
            Raise /\ UNCHANGED <<pages, fs>>
       ELSE /\ pages' = [pages EXCEPT ![Len(pages)].img = <<fs[styled_img_path]>>]
            /\ fs' = IF HasOrganic(styled_img_path) /\ fault # "remove"
                     THEN RemoveFile(fs, styled_img_path)
                     ELSE fs
            /\ pc' = "pdf_text"
            /\ UNCHANGED <<raised, result>>
    /\ UNCHANGED <<exitCode, envKey, GEMINI_API_KEY, story_inputs, story_text,
                   cover_image_path, image_list, story_pages,
                   generated_image_paths, i_api, trace, returned, args,
                   text_pages, i_pdf, styled_img_path, page_count, footers,
                   created, fs0, outputCalled, fault,
                   replyLog, font, fit, direct>>

\* create_pdf 203-219: the auto-fit text block of the page; the loop goes on
PdfDrawText ==
    /\ pc = "pdf_text"
    /\ pages' = [pages EXCEPT ![Len(pages)].text = text_pages[i_pdf + 1]]
    /\ i_pdf' = i_pdf + 1
    /\ pc' = LoopNext(i_pdf + 1, text_pages, args.image_list)
    /\ UNCHANGED <<exitCode, envKey, GEMINI_API_KEY, story_inputs, story_text,
                   cover_image_path, image_list, story_pages,
                   generated_image_paths, i_api, fs, trace, returned, args,
                   text_pages, styled_img_path, page_count, footers, created,
                   fs0, result, raised, outputCalled, fault,
                   replyLog, font, fit, direct>>

\* a mutant of HasBackCover: the back cover is added whatever the message
HasBackCoverAlways(a) == TRUE

\* if end_message: the empty string is false
HasBackCover(a) == a.end_message # << >>

\* create_pdf 224-235: the back cover, if end_message
PdfBackCover ==
    /\ pc = "pdf_back"
    /\ IF HasBackCover(args)
       THEN /\ footers' = ClosePage(footers, pages, page_count)
            /\ pages' = Append(pages, CoverPage("back", fs, args))
            /\ IF CoverRaises(fs, args)
               THEN Raise
               ELSE pc' = "pdf_output" /\ UNCHANGED <<raised, result>>
       ELSE /\ pc' = "pdf_output"
            /\ UNCHANGED <<footers, pages, raised, result>>
    /\ UNCHANGED <<exitCode, envKey, GEMINI_API_KEY, story_inputs, story_text,
                   cover_image_path, image_list, story_pages,
                   generated_image_paths, i_api, fs, trace, returned, args,
                   text_pages, i_pdf, styled_img_path, page_count, created,
                   fs0, outputCalled, fault,
                   replyLog, font, fit, direct>>

\* create_pdf 237-240: _page_count = page_no(); output(); return True
PdfOutput ==
    /\ pc = "pdf_output"
    /\ page_count' = Len(pages)
    /\ footers' = ClosePage(footers, pages, Len(pages))
    /\ IF fault = "output"
       THEN Raise /\ UNCHANGED outputCalled
       ELSE /\ outputCalled' = TRUE
            /\ result' = "True"
            /\ pc' = "pdf_returned"
            /\ UNCHANGED raised
    /\ UNCHANGED <<exitCode, envKey, GEMINI_API_KEY, story_inputs, story_text,
                   cover_image_path, image_list, story_pages,
                   generated_image_paths, i_api, fs, trace, returned, args,
                   text_pages, i_pdf, styled_img_path, pages, created, fs0,
                   fault,
                   replyLog, font, fit, direct>>

\* the whole of create_pdf
create_pdf ==
    \/ PdfFrontCover
    \/ PdfAddStoryPage
    \/ PdfStyleImage
    \/ PdfPlaceImage
    \/ PdfDrawText
    \/ PdfBackCover
    \/ PdfOutput

----------------------------------------------------------------------------
(* main.py 142-159: the call of create_pdf and the report. *)

\* a mutant of MainPdfArgs: the cover path is dropped
MainPdfArgsNoCover ==
    [story_text |-> story_text, image_list |-> image_list,
     end_message |-> story_inputs.end_message, cover_image_path |-> None]

\* the arguments main passes to create_pdf
MainPdfArgs ==
    [story_text |-> story_text, image_list |-> image_list,
     end_message |-> story_inputs.end_message,
     cover_image_path |-> cover_image_path]

CallCreatePdf ==
    /\ pc = "pdf_call"
    /\ args' = MainPdfArgs
    /\ fs0' = fs
    /\ trace' = Append(trace, Ev("call", "create_pdf", 0))
    /\ pc' = "pdf_begin"
    /\ UNCHANGED <<exitCode, envKey, GEMINI_API_KEY, story_inputs, story_text,
                   cover_image_path, image_list, story_pages,
                   generated_image_paths, i_api, fs, returned, text_pages,
                   i_pdf, styled_img_path, pages, page_count, footers,
                   created, result, raised, outputCalled, fault,
                   replyLog, font, fit, direct>>

\* a mutant of Report: a failed render ends the program with sys.exit(1)
ReportExitOnFailure ==
    /\ pc = "pdf_returned"
    /\ trace' = Append(trace, Ev("ret", "create_pdf", 0))
    /\ pc' = IF result = "False" THEN "exit" ELSE "done"
    /\ exitCode' = IF result = "False" THEN 1 ELSE 0
    /\ UNCHANGED <<envKey, GEMINI_API_KEY, story_inputs, story_text,
                   cover_image_path, image_list, story_pages,
                   generated_image_paths, i_api, fs, returned, args,
                   text_pages, i_pdf, styled_img_path, pages, page_count,
                   footers, created, fs0, result, raised, outputCalled, fault,
                   replyLog, font, fit, direct>>

\* if success: print(...) else: print(...); main returns
Report ==
    /\ pc = "pdf_returned"
    /\ trace' = Append(trace, Ev("ret", "create_pdf", 0))
    /\ pc' = "done"
    /\ exitCode' = 0
    /\ UNCHANGED <<envKey, GEMINI_API_KEY, story_inputs, story_text,
                   cover_image_path, image_list, story_pages,
                   generated_image_paths, i_api, fs, returned, args,
                   text_pages, i_pdf, styled_img_path, pages, page_count,
                   footers, created, fs0, result, raised, outputCalled, fault,
                   replyLog, font, fit, direct>>

----------------------------------------------------------------------------
(* The pipeline: one run of main. *)

NoArgs ==
    [story_text |-> << >>, image_list |-> << >>, end_message |-> << >>,
     cover_image_path |-> None]

\* create_pdf has not started
PdfIdle ==
    /\ text_pages = << >>
    /\ i_pdf = 0
    /\ styled_img_path = None
    /\ pages = << >>
    /\ page_count = 0
    /\ footers = << >>
    /\ created = {}
    /\ result = "none"
    /\ raised = FALSE
    /\ outputCalled = FALSE

\* api_clients reads the key when it is first imported, which can be before
\* main's own check of the environment (and the tests patch it)
Init ==
    /\ pc = "preflight"
    /\ exitCode = -1
    /\ envKey \in BOOLEAN
    /\ GEMINI_API_KEY \in BOOLEAN
    /\ story_inputs = [end_message |-> << >>]
    /\ story_text = << >>
    /\ cover_image_path = None
    /\ image_list = << >>
    /\ story_pages = << >>
    /\ generated_image_paths = << >>
    /\ i_api = 0
    /\ fs = << >>
    /\ trace = << >>
    /\ returned = [story |-> << >>, cover |-> None, images |-> << >>]
    /\ args = NoArgs
    /\ fs0 = << >>
    /\ PdfIdle
    /\ fault \in Faults
    /\ replyLog = NoLog
    /\ font = FontIdle
    /\ fit = FitIdle
    /\ DirectIdle

Next ==
    \/ Preflight
    \/ GetUserInput
    \/ get_story_from_gemini
    \/ get_cover_image
    \/ get_images_from_api
    \/ SendScene
    \/ ReturnImages
    \/ CallCreatePdf
    \/ create_pdf
    \/ Report

Spec == Init /\ [][Next]_vars

----------------------------------------------------------------------------
(* create_pdf called on its own, with any arguments and any directory. *)

\* the paths a caller passes: an illustration, a file whose name is the one
\* style_image_organic derives for that illustration, and a cover
UserImage == <<"temp_image_", "0", ".", "png">>
UserOrganic == OrganicName(UserImage)
UserCover == <<"cover_pattern", ".", "png">>

\* the story texts a caller passes
StoryTexts == SeqUpTo({"a", NL}, MaxTextLen)

\* a directory holding the three files with the given states ("absent": no file)
Directory(q) ==
    [p \in {f \in DOMAIN q : q[f] # "absent"} |-> Data("user", 0, q[p])]

\* the directories create_pdf starts in: each file is absent or holds an image
Directories ==
    {Directory((UserImage :> qi) @@ (UserOrganic :> qo) @@ (UserCover :> qc)) :
        qi \in {"absent", "ok", "small", "corrupt"},
        qo \in {"absent", "ok", "small"},
        qc \in {"absent", "ok", "corrupt"}}

InitPdf ==
    /\ pc = "pdf_begin"
    /\ exitCode = -1
    /\ envKey = TRUE
    /\ GEMINI_API_KEY = TRUE
    /\ story_inputs = [end_message |-> << >>]
    /\ story_text = << >>
    /\ cover_image_path = None
    /\ image_list = << >>
    /\ story_pages = << >>
    /\ generated_image_paths = << >>
    /\ i_api = 0
    /\ trace = << >>
    /\ returned = [story |-> << >>, cover |-> None, images |-> << >>]
    /\ fs \in Directories
    /\ fs0 = fs
    /\ args \in [story_text : StoryTexts,
                 image_list : SeqUpTo({UserImage, UserOrganic}, MaxImages),
                 end_message : {<< >>, <<"E">>},
                 cover_image_path : {None, UserCover}]
    /\ PdfIdle
    /\ fault \in Faults
    /\ replyLog = NoLog
    /\ font = FontIdle
    /\ fit = FitIdle
    /\ DirectIdle

NextPdf == create_pdf

SpecPdf == InitPdf /\ [][NextPdf]_vars

----------------------------------------------------------------------------
(* Properties. *)

\* the segments of the story text create_pdf was given
Segments == Split(args.story_text)

\* the entries of the history with the given kind and function
Events(ev, fn) == {j \in 1..Len(trace) : trace[j].ev = ev /\ trace[j].fn = fn}

\* after the front cover come exactly the story pages, one per segment, in order
InteriorPagesMatchSegments ==
    /\ Len(pages) >= 1 + Len(Segments)
    /\ pages[1].kind = "cover"
    /\ \A n \in 1..Len(pages) :
           pages[n].kind = "story" <=> n \in 2..(1 + Len(Segments))
    /\ \A j \in 1..Len(Segments) :
           pages[1 + j].seg = j - 1 /\ pages[1 + j].text = Segments[j]

\* C1 as stated: for k segments and m <= k images, whenever create_pdf has
\* returned the document holds exactly k story pages after the cover, one
\* per segment in segment order.
C1_Original ==
    (pc = "pdf_returned" /\ Len(args.image_list) <= Len(Segments))
        => InteriorPagesMatchSegments

\* C1 amended: for k segments and m <= k images, whenever create_pdf has
\* returned True the document holds exactly k story pages after the cover,
\* one per segment in segment order, whether or not m < k.
C1_InteriorPages ==
    (pc = "pdf_returned" /\ result = "True"
        /\ Len(args.image_list) <= Len(Segments))
        => InteriorPagesMatchSegments

\* a successful render of two or more segments with fewer images than segments
C1_Witness ==
    /\ pc = "pdf_returned"
    /\ result = "True"
    /\ Len(Segments) >= 2
    /\ Len(args.image_list) < Len(Segments)
    /\ \E n \in 1..Len(pages) : pages[n].img # << >> /\ pages[n].kind = "story"

\* C2 as stated: in a pipeline run, every illustration placed on the story
\* page of segment N is the file generated from the scene request for
\* segment N.
C2_PageNPairsWithIllustrationN ==
    \A n \in 1..Len(pages) :
        (pages[n].kind = "story" /\ pages[n].img # << >>)
            => (pages[n].img[1].src = "scene" /\ pages[n].img[1].page = pages[n].seg)

\* C3 as stated: when create_pdf has returned True, footer() was evaluated
\* once for every page p, and it drew p - 1 if p is neither the first nor
\* the last page and nothing otherwise.
C3_FooterNumbersInteriorPages ==
    (pc = "pdf_returned" /\ result = "True")
        => /\ Len(footers) = Len(pages)
           /\ \A p \in 1..Len(footers) :
                  /\ footers[p].page = p
                  /\ footers[p].number =
                         (IF p > 1 /\ p < Len(pages) THEN p - 1 ELSE 0)

\* C4 as stated: when create_pdf has returned, True or False, no file that
\* style_image_organic saved during the call is left on disk.
C4_StyledCopiesDeleted ==
    pc = "pdf_returned" => \A p \in created : ~Exists(fs, p)

\* C5 as stated: when create_pdf has returned, every file named by
\* image_list or cover_image_path that existed before the call still exists
\* with the same contents.
C5_OriginalsUntouched ==
    pc = "pdf_returned"
        => \A p \in Range(args.image_list) \cup {args.cover_image_path} :
               Exists(fs0, p) => (Exists(fs, p) /\ fs[p] = fs0[p])

\* the number of pages of a complete document
CompletePageCount ==
    1 + Len(Segments) + (IF args.end_message # << >> THEN 1 ELSE 0)

\* C6: an exception raised inside create_pdf never leaves it and makes it
\* return False; create_pdf returns True only if no exception was raised and
\* pdf.output was called after all pages were added.
C6_ExceptionsReturnFalse ==
    /\ pc # "pdf_crashed"
    /\ raised => (pc = "pdf_returned" /\ result = "False")
    /\ pc = "pdf_returned" => result \in {"True", "False"}
    /\ result = "True"
           => (~raised /\ outputCalled /\ Len(pages) = CompletePageCount)

\* the render was aborted by an exception after an illustration was styled
C6_Witness ==
    /\ pc = "pdf_returned"
    /\ raised
    /\ result = "False"
    /\ created # {}

\* a cover or scene request threw in this run
ImageRequestThrew == Events("throw", "cover") \cup Events("throw", "scene") # {}

\* C7 as stated: if the cover request or a scene request throws, create_pdf
\* is never called and main does not run to its end.
C7_ImageFailureHalts ==
    ImageRequestThrew => (Events("call", "create_pdf") = {} /\ pc # "done")

\* get_story_from_gemini raised
StoryFailed == Events("raise", "get_story_from_gemini") # {}

CallsAndReturns == SelectSeq(trace, LAMBDA e : e.ev \in {"call", "ret"})

\* C9: when main reaches its end, the stages ran in the order story, cover,
\* illustrations, create_pdf, each called once and each after the previous
\* one returned, and create_pdf received the story text, the image list and
\* the cover path those stages returned.
C9_StagesInOrder ==
    pc = "done"
        => /\ CallsAndReturns =
                  <<Ev("call", "get_story_from_gemini", 0),
                    Ev("ret", "get_story_from_gemini", 0),
                    Ev("call", "get_cover_image", 0),
                    Ev("ret", "get_cover_image", 0),
                    Ev("call", "get_images_from_api", 0),
                    Ev("ret", "get_images_from_api", 0),
                    Ev("call", "create_pdf", 0),
                    Ev("ret", "create_pdf", 0)>>
           /\ args.story_text = returned.story
           /\ args.image_list = returned.images
           /\ args.cover_image_path = returned.cover

\* main ran to its end with a cover image and an illustration
C9_Witness ==
    /\ pc = "done"
    /\ returned.cover # None
    /\ returned.images # << >>
    /\ returned.story # << >>

\* the scene requests sent for page i
SceneRequests(i) ==
    {j \in 1..Len(trace) :
        trace[j].ev = "req" /\ trace[j].fn = "scene" /\ trace[j].page = i}

\* the pages whose scene request threw or whose image file write failed
FailedPages ==
    {trace[j].page : j \in Events("throw", "scene") \cup Events("writefail", "scene")}

\* the story and cover stages returned and the illustration stage is over
ImagesStageOver ==
    /\ Events("ret", "get_story_from_gemini") # {}
    /\ Events("ret", "get_cover_image") # {}
    /\ Events("ret", "get_images_from_api") # {}

\* C10 as stated: in a run where the story and cover stages return, the
\* story request and the cover request are each sent exactly once and the
\* scene request of every story page is sent exactly once.
C10_Original ==
    ImagesStageOver
        => /\ Cardinality(Events("req", "story")) = 1
           /\ Cardinality(Events("req", "cover")) = 1
           /\ \A i \in 0..(Len(Split(returned.story)) - 1) :
                  Cardinality(SceneRequests(i)) = 1

\* C10 amended: in a run where the story and cover stages return, the story
\* request and the cover request are each sent exactly once, and the scene
\* request of a story page is sent exactly once if no earlier page's request
\* threw or file write failed, and not at all otherwise.
C10_NoRetry ==
    ImagesStageOver
        => /\ Cardinality(Events("req", "story")) = 1
           /\ Cardinality(Events("req", "cover")) = 1
           /\ \A i \in 0..(Len(Split(returned.story)) - 1) :
                  Cardinality(SceneRequests(i)) =
                      (IF \E f \in FailedPages : f < i THEN 0 ELSE 1)

\* the request of the first of several pages threw and the stage returned
C10_Witness ==
    /\ ImagesStageOver
    /\ Len(Split(returned.story)) >= 2
    /\ \E j \in Events("throw", "scene") : trace[j].page = 0

----------------------------------------------------------------------------
(* Partial content. *)

\* get_cover_image has returned None to main
CoverMissing ==
    Events("ret", "get_cover_image") # {} /\ returned.cover = None

\* get_images_from_api has returned fewer paths than the story has pages
ImagesShort ==
    /\ Events("ret", "get_images_from_api") # {}
    /\ Len(returned.images) < Len(Split(returned.story))

\* C11: partial content is not fatal: after get_cover_image returned None or
\* get_images_from_api returned fewer paths than the story has pages (none
\* included), main never exits with a failure, calls create_pdf exactly once
\* by the time it is done, and passes it exactly that cover path and that list.
C11_PartialContentNonFatal ==
    (CoverMissing \/ ImagesShort) =>
        /\ pc # "exit"
        /\ exitCode # 1
        /\ Cardinality(Events("call", "create_pdf")) <= 1
        /\ pc = "done" => Cardinality(Events("call", "create_pdf")) = 1
        /\ Events("call", "create_pdf") # {} =>
               /\ args.cover_image_path = returned.cover
               /\ args.image_list = returned.images

\* the run is over with no cover and one illustration for two pages
C11_Witness ==
    /\ pc = "done"
    /\ CoverMissing
    /\ ImagesShort
    /\ Len(returned.images) = 1
    /\ result = "True"

----------------------------------------------------------------------------
(* Missing illustrations. *)

\* story page i has no entry in image_list, or its entry is not on disk
MissingImage(i) ==
    i >= Len(args.image_list) \/ ~Exists(fs, args.image_list[i + 1])

\* the last page added to the document
LastPage == pages[Len(pages)]

\* C12: a story page whose index has no entry in image_list, or whose entry
\* is not a file on disk, is still rendered: create_pdf adds the page with the
\* background and the white frame block and no illustration, then draws the
\* text of its segment on it, and neither step raises or ends create_pdf.
C12_MissingImagePageRendered ==
    [][/\ (pc = "pdf_page" /\ MissingImage(i_pdf)) =>
              /\ pc' = "pdf_text"
              /\ Len(pages') = Len(pages) + 1
              /\ pages'[Len(pages')] =
                     [kind |-> "story", seg |-> i_pdf, fill |-> "theme",
                      frame |-> TRUE, img |-> << >>, text |-> << >>]
              /\ ~raised' /\ result' = "none"
       /\ (pc = "pdf_text" /\ LastPage.img = << >>) =>
              /\ pc' \in {"pdf_page", "pdf_back"}
              /\ pages' = [pages EXCEPT ![Len(pages)].text = Segments[i_pdf + 1]]
              /\ ~raised' /\ result' = "none"
      ]_vars

\* a finished document of two story pages, the first with an entry that is
\* not on disk and the second with no entry: both rendered without a picture
C12_Witness ==
    /\ pc = "pdf_returned"
    /\ result = "True"
    /\ Len(Segments) = 2
    /\ Len(args.image_list) = 1
    /\ ~Exists(fs0, args.image_list[1])
    /\ \A n \in 2..3 : /\ pages[n].kind = "story"
                        /\ pages[n].frame
                        /\ pages[n].img = << >>
                        /\ pages[n].text = Segments[n - 1]

----------------------------------------------------------------------------
(* The page order of a finished document. *)

\* path is a file of the directory create_pdf was entered with, and decodes
Resolvable(path) == Exists(fs0, path) /\ fs0[path].q # "corrupt"

\* the end-to-end scenario: two segments, two resolvable illustrations, a
\* cover image, an end message and nothing failing in the environment
FullBookScenario ==
    /\ Len(Segments) = 2
    /\ Len(args.image_list) = 2
    /\ \A j \in 1..2 : Resolvable(args.image_list[j])
    /\ args.cover_image_path # None
    /\ Resolvable(args.cover_image_path)
    /\ args.end_message # << >>
    /\ fault = "none"

\* C13: when create_pdf returns True the document is, in this order, the
\* front cover, one story page per segment of the text in segment order, and
\* a back cover exactly when end_message is not empty, 1 + k + (0 or 1) pages
\* in all; a call with two segments, two resolvable images, a cover image and
\* an end message returns True with exactly 4 pages.
C13_PageOrderAndCount ==
    /\ result = "True" =>
           /\ Len(pages) = CompletePageCount
           /\ pages[1].kind = "cover"
           /\ \A n \in 1..Len(Segments) :
                  pages[n + 1].kind = "story" /\ pages[n + 1].seg = n - 1
           /\ args.end_message # << >> => pages[Len(pages)].kind = "back"
           /\ args.end_message = << >> =>
                  \A n \in 1..Len(pages) : pages[n].kind # "back"
    /\ (FullBookScenario /\ pc = "pdf_returned") =>
           result = "True" /\ Len(pages) = 4

\* the scenario has returned
C13_Witness ==
    /\ FullBookScenario
    /\ pc = "pdf_returned"
    /\ result = "True"
    /\ pages[4].kind = "back"

----------------------------------------------------------------------------
(* The cover fallback. *)

\* cover_image_path is None or names no file of the directory
NoCoverImage == ~HasCover(fs0, args)

\* something other than the cover makes a step of this call raise: a failure
\* of the environment, or an illustration on disk that does not decode
OtherStepFails ==
    \/ fault # "none"
    \/ \E j \in 1..Len(args.image_list) :
           /\ Exists(fs0, args.image_list[j])
           /\ fs0[args.image_list[j]].q = "corrupt"

\* C14: when cover_image_path is None or names no existing file, the front
\* cover and the back cover are filled with the theme colour and carry no
\* image, and the missing cover does not make the render fail: create_pdf
\* returns True, with its covers in place, unless another step raises.
C14_CoverFallsBackToTheme ==
    NoCoverImage =>
        /\ \A n \in 1..Len(pages) :
               pages[n].kind \in {"cover", "back"} =>
                   pages[n].fill = "theme" /\ pages[n].img = << >>
        /\ (pc = "pdf_returned" /\ ~OtherStepFails) =>
               /\ result = "True"
               /\ ~raised
               /\ pages[1].kind = "cover"
               /\ args.end_message # << >> => pages[Len(pages)].kind = "back"

\* a finished book whose cover path names no file: both covers theme-filled
C14_Witness ==
    /\ pc = "pdf_returned"
    /\ result = "True"
    /\ args.cover_image_path # None
    /\ ~Exists(fs0, args.cover_image_path)
    /\ pages[1].kind = "cover" /\ pages[1].fill = "theme"
    /\ pages[Len(pages)].kind = "back" /\ pages[Len(pages)].fill = "theme"

----------------------------------------------------------------------------
(* calculate_optimal_font_size (book_assembler.py 99-122) called on its    *)
(* own.  Lengths are in hundredths of a millimetre, so that size * 0.45 is *)
(* the integer 45 * size.  The number of lines the text wraps to at a size *)
(* is FPDF's answer (multi_cell with split_only) and is drawn anew for     *)
(* each candidate.                                                         *)

\* the pipeline's variables while a function is called on its own
MainIdle ==
    /\ exitCode = -1
    /\ envKey = TRUE
    /\ story_inputs = [end_message |-> << >>]
    /\ cover_image_path = None
    /\ image_list = << >>
    /\ story_pages = << >>
    /\ generated_image_paths = << >>
    /\ i_api = 0
    /\ trace = << >>
    /\ returned = [story |-> << >>, cover |-> None, images |-> << >>]
    /\ args = NoArgs
    /\ fs0 = << >>

\* size = 18 # Start big
FontStartSize == 18
\* min_size = 10
FontMinSize == 10

\* line_height_mm = size * 0.45
LineHeight100(size) == 45 * size

\* a mutant of FontFits: the estimate uses the cell height size / 2
FontFitsHalf(num_lines, size, max_height) ==
    num_lines * 50 * size <= 100 * max_height

\* total_height = num_lines * line_height_mm; if total_height <= max_height
FontFits(num_lines, size, max_height) ==
    num_lines * LineHeight100(size) <= 100 * max_height

\* one pass of the while loop: the line count at this size, the estimate, and
\* either the return of (size, line_height_mm) or size -= 1
FontTry ==
    /\ font.pc = "loop"
    /\ font.size >= FontMinSize
    /\ \E num_lines \in 0..MaxLines :
           LET t == Append(font.tried, [size |-> font.size, lines |-> num_lines])
           IN  IF FontFits(num_lines, font.size, font.max_height)
               THEN font' = [font EXCEPT
                                !.pc = "done", !.tried = t,
                                !.ret = <<[size |-> font.size,
                                           line_height |-> LineHeight100(font.size)]>>]
               ELSE font' = [font EXCEPT !.tried = t, !.size = font.size - 1]

\* the loop ended without a fit: return min_size, (min_size * 0.45)
FontFallback ==
    /\ font.pc = "loop"
    /\ font.size < FontMinSize
    /\ font' = [font EXCEPT
                    !.pc = "done",
                    !.ret = <<[size |-> FontMinSize,
                               line_height |-> LineHeight100(FontMinSize)]>>]

calculate_optimal_font_size ==
    /\ FontTry \/ FontFallback
    /\ UNCHANGED <<pc, exitCode, envKey, GEMINI_API_KEY, story_inputs,
                   story_text, cover_image_path, image_list, story_pages,
                   generated_image_paths, i_api, fs, trace, returned, args,
                   text_pages, i_pdf, styled_img_path, pages, page_count,
                   footers, created, fs0, result, raised, outputCalled, fault,
                   replyLog, fit, direct>>

\* the heights (mm) a caller allows; create_pdf passes space_below = 40
FontHeights == {4, 10, 20, 40}

InitFont ==
    /\ pc = "font"
    /\ GEMINI_API_KEY = TRUE
    /\ story_text = << >>
    /\ fs = << >>
    /\ MainIdle
    /\ PdfIdle
    /\ fault = "none"
    /\ replyLog = NoLog
    /\ fit = FitIdle
    /\ DirectIdle
    /\ \E h \in FontHeights :
           font = [pc |-> "loop", max_height |-> h, size |-> FontStartSize,
                   tried |-> << >>, ret |-> << >>]

NextFont == calculate_optimal_font_size

SpecFont == InitFont /\ [][NextFont]_vars

\* the estimated block height of a tried candidate fits (hundredths of a mm)
Qualifies(e) == e.lines * 45 * e.size <= 100 * font.max_height

\* C15: calculate_optimal_font_size tries the sizes 18, 17, ..., 10 in this
\* order, at most 9 of them; it returns the largest of them whose estimated
\* block height (lines at that size times 0.45 * size) is at most max_height,
\* or 10 if none is; the line height returned is 0.45 times the size returned.
C15_LargestFittingSize ==
    /\ Len(font.tried) <= 9
    /\ \A j \in 1..Len(font.tried) : font.tried[j].size = 19 - j
    /\ font.pc = "done" =>
           LET r == font.ret[1]
               t == font.tried
           IN  /\ r.line_height = 45 * r.size
               /\ IF \E j \in 1..Len(t) : Qualifies(t[j])
                  THEN /\ Qualifies(t[Len(t)])
                       /\ r.size = t[Len(t)].size
                       /\ \A j \in 1..(Len(t) - 1) : ~Qualifies(t[j])
                  ELSE /\ r.size = 10
                       /\ Len(t) = 9

\* a text that fits at no size: all 9 candidates tried, 10 returned
C15_Witness ==
    /\ font.pc = "done"
    /\ Len(font.tried) = 9
    /\ ~Qualifies(font.tried[9])
    /\ font.ret[1].size = 10

\* a text that fits only after the size was reduced
FontReduced ==
    /\ font.pc = "done"
    /\ font.ret[1].size \in 11..17
    /\ Qualifies(font.tried[Len(font.tried)])

----------------------------------------------------------------------------
(* Python's float arithmetic (IEEE 754 binary64, round to nearest, ties to *)
(* even), as create_pdf 185-194 uses it.  A natural number is a sequence   *)
(* of limbs, least significant first, without a leading zero limb; a float *)
(* is m * 2^(-s) with m of exactly 53 bits (or zero).  Every value of this *)
(* computation is below 2^53, so s is never negative.                      *)

LimbBase == 2^15

RECURSIVE NatLimbs(_)
NatLimbs(n) == IF n = 0 THEN << >> ELSE <<n % LimbBase>> \o NatLimbs(n \div LimbBase)

Limb(a, j) == IF j <= Len(a) THEN a[j] ELSE 0

RECURSIVE Trim(_)
Trim(a) ==
    IF a # << >> /\ a[Len(a)] = 0 THEN Trim(SubSeq(a, 1, Len(a) - 1)) ELSE a

RECURSIVE AddFrom(_, _, _, _)
AddFrom(a, b, j, carry) ==
    IF j > Len(a) /\ j > Len(b)
    THEN NatLimbs(carry)
    ELSE LET t == Limb(a, j) + Limb(b, j) + carry
         IN  <<t % LimbBase>> \o AddFrom(a, b, j + 1, t \div LimbBase)

BAdd(a, b) == AddFrom(a, b, 1, 0)

RECURSIVE SubFrom(_, _, _, _)
SubFrom(a, b, j, borrow) ==
    IF j > Len(a)
    THEN << >>
    ELSE LET t == Limb(a, j) - Limb(b, j) - borrow
         IN  <<IF t < 0 THEN t + LimbBase ELSE t>>
                 \o SubFrom(a, b, j + 1, IF t < 0 THEN 1 ELSE 0)

\* a - b, for a >= b
BSub(a, b) == Trim(SubFrom(a, b, 1, 0))

\* -1, 0 or 1 as a is below, equal to or above b
BCmp(a, b) ==
    IF Len(a) # Len(b)
    THEN IF Len(a) < Len(b) THEN -1 ELSE 1
    ELSE LET D == {j \in 1..Len(a) : a[j] # b[j]}
         IN  IF D = {}
             THEN 0
             ELSE LET j == CHOOSE x \in D : \A y \in D : y <= x
                  IN  IF a[j] < b[j] THEN -1 ELSE 1

RECURSIVE MulSmallFrom(_, _, _, _)
MulSmallFrom(a, n, j, carry) ==
    IF j > Len(a)
    THEN NatLimbs(carry)
    ELSE LET t == a[j] * n + carry
         IN  <<t % LimbBase>> \o MulSmallFrom(a, n, j + 1, t \div LimbBase)

\* a * n, for 0 <= n <= LimbBase
BMulSmall(a, n) == IF n = 0 THEN << >> ELSE MulSmallFrom(a, n, 1, 0)

\* a * LimbBase^c
ShiftLimbs(a, c) == IF a = << >> THEN << >> ELSE [j \in 1..c |-> 0] \o a

RECURSIVE MulFrom(_, _, _)
MulFrom(a, b, j) ==
    IF j > Len(b)
    THEN << >>
    ELSE BAdd(ShiftLimbs(BMulSmall(a, b[j]), j - 1), MulFrom(a, b, j + 1))

BMul(a, b) == MulFrom(a, b, 1)

\* a * 2^k
BShl(a, k) == ShiftLimbs(BMulSmall(a, 2^(k % 15)), k \div 15)

Pow2(k) == BShl(<<1>>, k)

\* the number of bits of a
BitLen(a) ==
    IF a = << >>
    THEN 0
    ELSE 15 * (Len(a) - 1) + (CHOOSE k \in 1..15 : 2^(k-1) <= a[Len(a)] /\ a[Len(a)] < 2^k)

\* bit j of a, bit 0 the least significant
Bit(a, j) == (Limb(a, j \div 15 + 1) \div 2^(j % 15)) % 2

\* the element of a one-element set: {e(v) : v \in {x}} computes x once
Only(S) == CHOOSE x \in S : TRUE

\* one step of long division: the next bit of the dividend enters the
\* remainder, which stays below d, and the quotient grows by one bit
DivStep(st, bit, d) ==
    Only({IF BCmp(r2, d) >= 0
          THEN [q |-> BAdd(BMulSmall(st.q, 2), <<1>>), r |-> BSub(r2, d)]
          ELSE [q |-> BMulSmall(st.q, 2), r |-> r2]
          : r2 \in {BAdd(BMulSmall(st.r, 2), NatLimbs(bit))}})

\* long division over the bits hi down to lo of n, the upper half first
RECURSIVE DivBits(_, _, _, _, _)
DivBits(n, d, hi, lo, st) ==
    IF hi < lo
    THEN st
    ELSE IF hi = lo
    THEN DivStep(st, Bit(n, hi), d)
    ELSE Only({DivBits(n, d, (hi + lo) \div 2, lo, upper)
               : upper \in {DivBits(n, d, hi, (hi + lo) \div 2 + 1, st)}})

\* quotient and remainder of n by d, d > 0
BDivMod(n, d) == DivBits(n, d, BitLen(n) - 1, 0, [q |-> << >>, r |-> << >>])

\* the significand of a float has 53 bits
Precision == 53

FZero == [m |-> << >>, s |-> 0]

\* the quotient q of 53 bits and the remainder r of n by d, as the float
\* q * 2^(-s) rounded to nearest, ties to the even significand
RoundQuotient(q, r, d, s) ==
    Only({IF BitLen(m) > Precision
          THEN [m |-> BDivMod(m, <<2>>).q, s |-> s - 1]
          ELSE [m |-> m, s |-> s]
          : m \in {IF \/ BCmp(BMulSmall(r, 2), d) > 0
                      \/ BCmp(BMulSmall(r, 2), d) = 0 /\ q[1] % 2 = 1
                   THEN BAdd(q, <<1>>)
                   ELSE q}})

\* n / d rounded, for n and d scaled so that 2^52 <= n / d < 2^53
RoundScaled(n, d, s) ==
    Only({RoundQuotient(dm.q, dm.r, d, s) : dm \in {BDivMod(n, d)}})

\* n * 2^k / d rounded, where the quotient has 53 or 54 bits
RoundShifted(n, d, k) ==
    IF BCmp(n, BShl(d, Precision)) >= 0
    THEN Only({RoundScaled(n, d2, k - 1) : d2 \in {BShl(d, 1)}})
    ELSE RoundScaled(n, d, k)

\* the float nearest to n / d (ties to the even significand), n >= 0, d > 0
RoundRat(n, d) ==
    IF n = << >>
    THEN FZero
    ELSE Only({Only({RoundShifted(n1, d1, k)
                     : n1 \in {IF k >= 0 THEN BShl(n, k) ELSE n},
                       d1 \in {IF k >= 0 THEN d ELSE BShl(d, -k)}})
               : k \in {Precision + BitLen(d) - BitLen(n)}})

\* int to float (exact for the integers of this computation)
FromInt(n) == RoundRat(NatLimbs(n), <<1>>)

\* the float nearest to n / d, n and d computed once
Rounded(n, d) == Only({RoundRat(nv, dv) : nv \in {n}, dv \in {d}})

\* x / y, x * y, x + y and, for x >= y, x - y
FDiv(x, y) == Rounded(BShl(x.m, y.s), BShl(y.m, x.s))
FMul(x, y) == Rounded(BMul(x.m, y.m), Pow2(x.s + y.s))
FAdd(x, y) == Rounded(BAdd(BShl(x.m, y.s), BShl(y.m, x.s)), Pow2(x.s + y.s))
FSub(x, y) == Rounded(BSub(BShl(x.m, y.s), BShl(y.m, x.s)), Pow2(x.s + y.s))

\* -1, 0 or 1 as x is below, equal to or above y
FCmp(x, y) == BCmp(BShl(x.m, y.s), BShl(y.m, x.s))

----------------------------------------------------------------------------
(* create_pdf 164-166 and 180-194: the size and the position of an image   *)
(* of img_w_px by img_h_px pixels inside the frame, computed on its own.   *)

PAGE_SIZE_MM == 210
sq_size == 140
frame_y == 15
padding == 5

\* img_max_size = sq_size - (padding * 2)
img_max_size == sq_size - (padding * 2)

\* frame_x = (PAGE_SIZE_MM - sq_size) / 2
frame_x == FDiv(FromInt(PAGE_SIZE_MM - sq_size), FromInt(2))

\* a mutant of IsTall: the branches are taken the wrong way round
IsTallFlipped(aspect_ratio) == FCmp(aspect_ratio, FromInt(1)) < 0

\* if aspect_ratio > 1
IsTall(aspect_ratio) == FCmp(aspect_ratio, FromInt(1)) > 0

\* lines 186-191: new_w and new_h for an aspect ratio
NewSize(aspect_ratio, max_size) ==
    IF IsTall(aspect_ratio)
    THEN [new_w |-> FDiv(max_size, aspect_ratio), new_h |-> max_size]
    ELSE [new_w |-> max_size, new_h |-> FMul(max_size, aspect_ratio)]

\* lines 193-194: img_x and img_y for a size
Position(size, max_size, two) ==
    [new_w |-> size.new_w,
     new_h |-> size.new_h,
     img_x |-> FAdd(FAdd(frame_x, FromInt(padding)),
                    FDiv(FSub(max_size, size.new_w), two)),
     img_y |-> FAdd(FromInt(frame_y + padding),
                    FDiv(FSub(max_size, size.new_h), two))]

\* lines 185-194: new_w, new_h, img_x and img_y, as floats
Placement(img_w_px, img_h_px) ==
    Only({Only({Position(size, max_size, two)
                : size \in {NewSize(aspect_ratio, max_size)}})
          : aspect_ratio \in {FDiv(FromInt(img_h_px), FromInt(img_w_px))},
            max_size \in {FromInt(img_max_size)},
            two \in {FromInt(2)}})

\* with Image.open(styled_img_path) as img: ... the arithmetic of 180-194
FitImage ==
    /\ fit.pc = "open"
    /\ fit' = [fit EXCEPT !.pc = "done",
                          !.placed = <<Placement(fit.w, fit.h)>>]
    /\ UNCHANGED <<pc, exitCode, envKey, GEMINI_API_KEY, story_inputs,
                   story_text, cover_image_path, image_list, story_pages,
                   generated_image_paths, i_api, fs, trace, returned, args,
                   text_pages, i_pdf, styled_img_path, pages, page_count,
                   footers, created, fs0, result, raised, outputCalled, fault,
                   replyLog, font, direct>>

InitFit ==
    /\ pc = "fit"
    /\ GEMINI_API_KEY = TRUE
    /\ story_text = << >>
    /\ fs = << >>
    /\ MainIdle
    /\ PdfIdle
    /\ fault = "none"
    /\ replyLog = NoLog
    /\ font = FontIdle
    /\ DirectIdle
    /\ \E w \in 1..MaxPx, h \in 1..MaxPx :
           fit = [pc |-> "open", w |-> w, h |-> h, placed |-> << >>]

NextFit == FitImage

SpecFit == InitFit /\ [][NextFit]_vars

----------------------------------------------------------------------------
(* The placement of an image: exact values of the floats computed. *)

\* exact numbers n / 2^s: the value of a float, an integer, sums and distances
RVal(x) == [n |-> x.m, s |-> x.s]
RInt(k) == [n |-> NatLimbs(k), s |-> 0]
RAdd(x, y) == [n |-> BAdd(BShl(x.n, y.s), BShl(y.n, x.s)), s |-> x.s + y.s]
RTimes(x, k) == [n |-> BMul(x.n, NatLimbs(k)), s |-> x.s]
RCmp(x, y) == BCmp(BShl(x.n, y.s), BShl(y.n, x.s))
RDist(x, y) ==
    IF RCmp(x, y) >= 0
    THEN [n |-> BSub(BShl(x.n, y.s), BShl(y.n, x.s)), s |-> x.s + y.s]
    ELSE [n |-> BSub(BShl(y.n, x.s), BShl(x.n, y.s)), s |-> x.s + y.s]

\* |x - y| <= 2^(-40) * z
Within(x, y, z) == RCmp([n |-> BShl(RDist(x, y).n, 40), s |-> RDist(x, y).s], z) <= 0

Placed == fit.placed[1]

\* the image is inside the available area and touches it in one dimension
FitsArea ==
    /\ RCmp(RVal(Placed.new_w), RInt(130)) <= 0
    /\ RCmp(RVal(Placed.new_h), RInt(130)) <= 0
    /\ \/ RCmp(RVal(Placed.new_w), RInt(130)) = 0
       \/ RCmp(RVal(Placed.new_h), RInt(130)) = 0

\* the padded frame spans 40..170 across and 20..150 down: the margins on
\* the two sides of the image are equal when 2 * img_x + new_w = 210 and
\* 2 * img_y + new_h = 170
TwiceCentreX == RAdd(RTimes(RVal(Placed.img_x), 2), RVal(Placed.new_w))
TwiceCentreY == RAdd(RTimes(RVal(Placed.img_y), 2), RVal(Placed.new_h))

\* C16 as stated: new_w * h == new_h * w as Python evaluates it, the image
\* fits the 130 x 130 area and touches it, and the margins are equal.
C16_Original ==
    fit.pc = "done" =>
        /\ FCmp(FMul(Placed.new_w, FromInt(fit.h)),
                FMul(Placed.new_h, FromInt(fit.w))) = 0
        /\ FitsArea
        /\ RCmp(TwiceCentreX, RInt(210)) = 0
        /\ RCmp(TwiceCentreY, RInt(170)) = 0

\* C16: for an image of w by h pixels (w, h > 0) the placement size has
\* new_w <= 130, new_h <= 130 and max(new_w, new_h) = 130 exactly, while
\* new_w * h and new_h * w agree within floating-point rounding (a relative
\* error of at most 2^-40) and the image is centred in the padded frame
\* within rounding (margins differing by at most 2^-40 mm).
C16_AspectKeptWithinRounding ==
    fit.pc = "done" =>
        /\ FitsArea
        /\ Within(RTimes(RVal(Placed.new_w), fit.h),
                  RTimes(RVal(Placed.new_h), fit.w),
                  RTimes(RVal(Placed.new_h), fit.w))
        /\ Within(TwiceCentreX, RInt(210), RInt(1))
        /\ Within(TwiceCentreY, RInt(170), RInt(1))

\* a 3 x 7 image placed: 130 / (7 / 3) times 7 is not 390 in floats
C16_Witness ==
    /\ fit.pc = "done"
    /\ fit.w = 3 /\ fit.h = 7
    /\ RCmp(RVal(Placed.new_h), RInt(130)) = 0
    /\ RCmp(RVal(Placed.new_w), RInt(130)) < 0

----------------------------------------------------------------------------
(* get_images_from_api called on its own with a story text, the replies of *)
(* the image model kept in replyLog.                                       *)

\* the story texts a caller passes: empty, one page, two pages
ClientTexts == {<< >>, <<"a">>, <<NL, NL>>, <<"a", NL, NL, "b">>}

InitImages ==
    /\ pc = "images"
    /\ GEMINI_API_KEY \in BOOLEAN
    /\ story_text \in ClientTexts
    /\ fs = << >>
    /\ MainIdle
    /\ PdfIdle
    /\ fault = "none"
    /\ replyLog = EmptyLog
    /\ font = FontIdle
    /\ fit = FitIdle
    /\ DirectIdle

NextImages ==
    \/ get_images_from_api
    \/ SendScene
    \/ ReturnImages

SpecImages == InitImages /\ [][NextImages]_vars

\* the pages of the scene requests, in the order they were sent
ScenePagesRequested ==
    LET reqs == SelectSeq(trace, LAMBDA e : e.ev = "req" /\ e.fn = "scene")
    IN  [j \in 1..Len(reqs) |-> reqs[j].page]

\* the replies to the scene request of page i
SceneReplies(i) ==
    SelectSeq(replyLog.log, LAMBDA e : e.fn = "scene" /\ e.page = i)

\* the first part of a reply that carries inline data, << >> if none does
FirstImagePart(parts) ==
    LET withData == SelectSeq(parts, LAMBDA part : part.inline)
    IN  IF withData = << >> THEN << >> ELSE <<withData[1]>>

\* page i was answered with an image and the image was written to its file
Illustrated(i) ==
    /\ Len(SceneReplies(i)) = 1
    /\ FirstImagePart(SceneReplies(i)[1].parts) # << >>
    /\ i \notin FailedPages

\* the file name of the illustration of page i
IllustrationName(i) ==
    <<"temp_image_", IdxStr(i), ".">>
        \o <<FirstImagePart(SceneReplies(i)[1].parts)[1].mime[2]>>

\* the names of the illustrated pages among the first m, in page order
RECURSIVE IllustrationNames(_)
IllustrationNames(m) ==
    IF m = 0
    THEN << >>
    ELSE IllustrationNames(m - 1)
             \o (IF Illustrated(m - 1) THEN <<IllustrationName(m - 1)>> ELSE << >>)

\* get_images_from_api has returned, having had the credential
ImagesReturned ==
    /\ GEMINI_API_KEY
    /\ Events("ret", "get_images_from_api") # {}

\* C17 as stated: one scene request per page of the split text, in page
\* order over one session; the first part with inline data of each reply is
\* written to temp_image_<i>.<ext> and its path appended; a page without an
\* image is skipped, so the list is in page order and possibly shorter.
C17_Original ==
    ImagesReturned =>
        LET n == Len(Split(story_text)) IN
        /\ Cardinality(Events("session", "start_chat")) = 1
        /\ ScenePagesRequested = [j \in 1..n |-> j - 1]
        /\ returned.images = IllustrationNames(n)

\* C17 amended: the pages are requested one by one in page order over one
\* session until a request throws or a file write fails, which ends the
\* loop; each request is sent once and each reply is handled as stated: the
\* first part with inline data is written to temp_image_<i>.<ext> and its
\* path appended, a page without an image is skipped; the list returned is
\* in page order and holds exactly the illustrations written.
C17_ScenePerPageUntilFailure ==
    ImagesReturned =>
        LET n == Len(Split(story_text))
            m == IF FailedPages = {}
                 THEN n
                 ELSE 1 + CHOOSE f \in FailedPages : \A g \in FailedPages : f <= g
        IN  /\ Cardinality(Events("session", "start_chat")) = 1
            /\ m <= n
            /\ ScenePagesRequested = [j \in 1..m |-> j - 1]
            /\ returned.images = IllustrationNames(m)
            /\ Len(returned.images) <= n
            /\ \A i \in 0..(m - 1) :
                   Illustrated(i) =>
                       /\ Exists(fs, IllustrationName(i))
                       /\ fs[IllustrationName(i)] =
                              Data("scene", i,
                                   FirstImagePart(SceneReplies(i)[1].parts)[1].q)

\* two pages: the first reply has no image, the first image part of the
\* second is a JPEG; one path comes back, that of page 1
C17_Witness ==
    /\ ImagesReturned
    /\ Len(Split(story_text)) = 2
    /\ FailedPages = {}
    /\ returned.images = <<<<"temp_image_", "1", ".", "jpeg">>>>

----------------------------------------------------------------------------
(* get_cover_image called on its own, the reply kept in replyLog; the      *)
(* directory may hold the cover of an earlier run.                         *)

InitCover ==
    /\ pc = "cover"
    /\ GEMINI_API_KEY \in BOOLEAN
    /\ story_text = << >>
    /\ fs \in {<< >>,
               UserCover :> Data("cover", 0, "ok"),
               CoverFilename(<<"image", "jpeg">>) :> Data("cover", 0, "ok")}
    /\ MainIdle
    /\ PdfIdle
    /\ fault = "none"
    /\ replyLog = EmptyLog
    /\ font = FontIdle
    /\ fit = FitIdle
    /\ DirectIdle

NextCover == get_cover_image

SpecCover == InitCover /\ [][NextCover]_vars

\* get_cover_image has returned
CoverReturned == Events("ret", "get_cover_image") # {}

\* the replies to the cover request
CoverReplies == SelectSeq(replyLog.log, LAMBDA e : e.fn = "cover")

\* the reply to the cover request carries an image and the image was written
CoverWritten ==
    /\ Len(CoverReplies) = 1
    /\ FirstImagePart(CoverReplies[1].parts) # << >>
    /\ Events("writefail", "cover") = {}

\* C18: get_cover_image never raises.  It returns 'cover_pattern.<ext>', ext
\* the MIME subtype of the first part of the reply that carries inline data,
\* after writing that part to this file; it returns None in every other
\* case: without the credential (and then no request is sent), when the
\* request throws, when no part carries an image, when the write fails.
C18_CoverPathOrNone ==
    CoverReturned =>
        /\ Events("raise", "get_cover_image") = {}
        /\ Cardinality(Events("req", "cover")) = (IF GEMINI_API_KEY THEN 1 ELSE 0)
        /\ Len(CoverReplies) =
               (IF GEMINI_API_KEY /\ Events("throw", "cover") = {} THEN 1 ELSE 0)
        /\ IF CoverWritten
           THEN LET part == FirstImagePart(CoverReplies[1].parts)[1]
                    name == <<"cover_pattern", ".", part.mime[2]>>
                IN  /\ returned.cover = name
                    /\ Exists(fs, name)
                    /\ fs[name] = Data("cover", 0, part.q)
           ELSE returned.cover = None

\* a reply whose first image part is a JPEG, after a text part: written
C18_Witness ==
    /\ CoverReturned
    /\ CoverWritten
    /\ ~CoverReplies[1].parts[1].inline
    /\ returned.cover = <<"cover_pattern", ".", "jpeg">>

\* the cover request was answered with an image and writing it failed
CoverWriteFailed ==
    /\ CoverReturned
    /\ Events("writefail", "cover") # {}
    /\ returned.cover = None

----------------------------------------------------------------------------
(* The story client: failure is raised, never returned. *)

StoryCalled == Events("call", "get_story_from_gemini") # {}
StoryReturned == Events("ret", "get_story_from_gemini") # {}
StoryRequestThrew == Events("throw", "story") # {}

----------------------------------------------------------------------------
(* The clean-up of the story response (api_clients.py 35-42) on its own:   *)
(* any response text over the six typographic characters, their            *)
(* replacements' characters and a letter is cleaned, and the result is     *)
(* cleaned again.                                                          *)

\* the characters of a response
ResponseChars ==
    {Ellipsis, RightSingleQuote, LeftSingleQuote, LeftDoubleQuote,
     RightDoubleQuote, EmDash, ".", "'", "\"", "-", "a"}

\* clean_text = response.text; the six replaces; return clean_text
CleanResponse ==
    /\ clean.pc = "call"
    /\ clean' = [clean EXCEPT !.pc = "returned",
                              !.clean_text = CleanText(clean.text)]

\* the cleaned text is sent through the clean-up a second time
CleanAgain ==
    /\ clean.pc = "returned"
    /\ clean' = [clean EXCEPT !.pc = "again",
                              !.again = CleanText(clean.clean_text)]

Cleaning ==
    /\ CleanResponse \/ CleanAgain
    /\ UNCHANGED <<piped, theme, filename, runs, block>>

InitClean ==
    /\ pc = "clean"
    /\ GEMINI_API_KEY = TRUE
    /\ story_text = << >>
    /\ fs = << >>
    /\ MainIdle
    /\ PdfIdle
    /\ fault = "none"
    /\ replyLog = NoLog
    /\ font = FontIdle
    /\ fit = FitIdle
    /\ theme = ThemeIdle
    /\ filename = FilenameIdle
    /\ runs = RunsIdle
    /\ block = BlockIdle
    /\ \E t \in SeqUpTo(ResponseChars, MaxTextLen) :
           clean = [pc |-> "call", text |-> t, clean_text |-> << >>,
                    again |-> << >>]

NextClean == Cleaning

SpecClean == InitClean /\ [][NextClean]_vars

\* the six characters the clean-up replaces
SourceGlyphs ==
    {Ellipsis, RightSingleQuote, LeftSingleQuote, LeftDoubleQuote,
     RightDoubleQuote, EmDash}

\* what one character of the response is to become
Cleaned(ch) ==
    CASE ch = Ellipsis -> <<".", ".", ".">>
      [] ch \in {RightSingleQuote, LeftSingleQuote} -> <<"'">>
      [] ch \in {LeftDoubleQuote, RightDoubleQuote} -> <<"\"">>
      [] ch = EmDash -> <<"-", "-">>
      [] OTHER -> <<ch>>

\* the characters of t one by one, each as it is to become, in order
RECURSIVE CleanedInOrder(_)
CleanedInOrder(t) ==
    IF t = << >> THEN << >> ELSE Cleaned(Head(t)) \o CleanedInOrder(Tail(t))

\* C21: the clean-up of get_story_from_gemini is idempotent (cleaning the
\* cleaned text again gives the same text); the cleaned text holds none of
\* the six source characters (ellipsis, the curly single and double quotes,
\* em-dash); and it is the response with each source character replaced in
\* place, every other character unchanged and in order.
C21_CleanUpIdempotentAndComplete ==
    /\ clean.pc \in {"returned", "again"} =>
           /\ Range(clean.clean_text) \cap SourceGlyphs = {}
           /\ clean.clean_text = CleanedInOrder(clean.text)
    /\ clean.pc = "again" => clean.again = clean.clean_text

\* a response with a source character next to the characters of a
\* replacement has been cleaned twice
C21_Witness ==
    /\ clean.pc = "again"
    /\ EmDash \in Range(clean.text)
    /\ "-" \in Range(clean.text)
    /\ Len(clean.clean_text) > Len(clean.text)

----------------------------------------------------------------------------
(* The theme colour of create_pdf (book_assembler.py 10-17, 133, 142-143,  *)
(* 160-161) on its own: any spelling of a colour name is resolved and the  *)
(* background of a page is filled with the result.                         *)

\* the letters str.lower() and str.upper() map to each other
LowerLetters ==
    <<"a", "b", "c", "d", "e", "f", "g", "h", "i", "j", "k", "l", "m">> \o
    <<"n", "o", "p", "q", "r", "s", "t", "u", "v", "w", "x", "y", "z">>
UpperLetters ==
    <<"A", "B", "C", "D", "E", "F", "G", "H", "I", "J", "K", "L", "M">> \o
    <<"N", "O", "P", "Q", "R", "S", "T", "U", "V", "W", "X", "Y", "Z">>

\* ch.lower() and ch.upper() of one character
LowerChar(ch) ==
    IF \E j \in 1..26 : UpperLetters[j] = ch
    THEN LowerLetters[CHOOSE j \in 1..26 : UpperLetters[j] = ch]
    ELSE ch
UpperChar(ch) ==
    IF \E j \in 1..26 : LowerLetters[j] = ch
    THEN UpperLetters[CHOOSE j \in 1..26 : LowerLetters[j] = ch]
    ELSE ch

\* text.lower()
Lower(text) == [j \in 1..Len(text) |-> LowerChar(text[j])]

COLOR_MAP ==
    (<<"l", "i", "g", "h", "t", " ", "b", "l", "u", "e">>
        :> <<204, 229, 255>>) @@
    (<<"l", "i", "g", "h", "t", " ", "p", "i", "n", "k">>
        :> <<255, 204, 229>>) @@
    (<<"l", "i", "g", "h", "t", " ", "g", "r", "e", "e", "n">>
        :> <<204, 255, 204>>) @@
    (<<"l", "i", "g", "h", "t", " ", "y", "e", "l", "l", "o", "w">>
        :> <<255, 255, 204>>) @@
    (<<"l", "i", "g", "h", "t", " ", "g", "r", "a", "y">>
        :> <<230, 230, 230>>) @@
    (<<"w", "h", "i", "t", "e">>
        :> <<255, 255, 255>>)

\* the default of COLOR_MAP.get
White == <<255, 255, 255>>

\* a mutant of ThemeRgb: the name is looked up as it was typed
ThemeRgbAsTyped(theme_color) ==
    IF theme_color \in DOMAIN COLOR_MAP THEN COLOR_MAP[theme_color] ELSE White

\* rgb_color = COLOR_MAP.get(theme_color.lower(), (255, 255, 255))
ThemeRgb(theme_color) ==
    IF Lower(theme_color) \in DOMAIN COLOR_MAP
    THEN COLOR_MAP[Lower(theme_color)]
    ELSE White

\* line 133
ResolveThemeColor ==
    /\ theme.pc = "call"
    /\ theme' = [theme EXCEPT !.pc = "resolved",
                              !.rgb_color = ThemeRgb(theme.theme_color)]

\* lines 160-161: pdf.set_fill_color(*rgb_color); pdf.rect(..., style='F')
FillBackground ==
    /\ theme.pc = "resolved"
    /\ theme' = [theme EXCEPT !.pc = "filled", !.fill = theme.rgb_color]

ThemeColor ==
    /\ ResolveThemeColor \/ FillBackground
    /\ UNCHANGED <<piped, clean, filename, runs, block>>

\* a name with the letters at the positions in up typed in upper case
Spelled(name, up) ==
    [j \in 1..Len(name) |-> IF j \in up THEN UpperChar(name[j]) ELSE name[j]]

\* the spellings of a name: as it is, all upper case, one letter upper case
Spellings(name) ==
    {Spelled(name, up) : up \in {{}, 1..Len(name)} \cup {{j} : j \in 1..Len(name)}}

\* names that are no colour of the table, also after lower-casing
OtherNames ==
    {<< >>, <<"r", "e", "d">>, <<"B", "l", "u", "e">>,
     <<"l", "i", "g", "h", "t", "b", "l", "u", "e">>,
     <<"l", "i", "g", "h", "t", " ", " ", "b", "l", "u", "e">>,
     <<" ", "w", "h", "i", "t", "e">>, <<"W", "H", "I", "T", "E", " ">>,
     <<"l", "i", "g", "h", "t", "_", "p", "i", "n", "k">>,
     <<"i", "n", "v", "a", "l", "i", "d", "_", "c", "o", "l", "o", "r">>}

\* the theme_color strings a caller passes
ThemeColors == (UNION {Spellings(name) : name \in DOMAIN COLOR_MAP}) \cup OtherNames

InitTheme ==
    /\ pc = "theme"
    /\ GEMINI_API_KEY = TRUE
    /\ story_text = << >>
    /\ fs = << >>
    /\ MainIdle
    /\ PdfIdle
    /\ fault = "none"
    /\ replyLog = NoLog
    /\ font = FontIdle
    /\ fit = FitIdle
    /\ clean = CleanIdle
    /\ filename = FilenameIdle
    /\ runs = RunsIdle
    /\ block = BlockIdle
    /\ \E c \in ThemeColors :
           theme = [pc |-> "call", theme_color |-> c, rgb_color |-> << >>,
                    fill |-> << >>]

NextTheme == ThemeColor

SpecTheme == InitTheme /\ [][NextTheme]_vars

\* a and b are the same text up to the case of their letters
SameLetters(a, b) ==
    /\ Len(a) = Len(b)
    /\ \A j \in 1..Len(a) : a[j] \in {b[j], LowerChar(b[j]), UpperChar(b[j])}

\* C22: the fill colour create_pdf uses for a theme_color string is the
\* COLOR_MAP entry of the lower-cased name when that is one of the six
\* colour names, and white (255, 255, 255) for every other name.
C22_ThemeFillFromTable ==
    theme.pc = "filled" =>
        IF \E name \in DOMAIN COLOR_MAP : SameLetters(name, theme.theme_color)
        THEN \E name \in DOMAIN COLOR_MAP :
                 /\ SameLetters(name, theme.theme_color)
                 /\ theme.fill = COLOR_MAP[name]
        ELSE theme.fill = <<255, 255, 255>>

\* "LIGHT BLUE" has been resolved and a page filled with (204, 229, 255)
C22_Witness ==
    /\ theme.pc = "filled"
    /\ theme.theme_color = <<"L", "I", "G", "H", "T", " ", "B", "L", "U", "E">>
    /\ theme.fill = <<204, 229, 255>>

\* an unknown name has been resolved and a page filled with white
ThemeDefaulted ==
    /\ theme.pc = "filled"
    /\ theme.theme_color = <<"i", "n", "v", "a", "l", "i", "d", "_", "c", "o", "l", "o", "r">>
    /\ theme.fill = White

----------------------------------------------------------------------------
(* main.py 142-159: a render that failed. *)

\* the calls of a function of the pipeline
Calls(fn) == Events("call", fn)

\* C23: when create_pdf returns False, main reports it and returns normally:
\* no exception, no sys.exit, and neither create_pdf nor a generation
\* function is called a second time.
C23_PdfFailureReported ==
    result = "False" =>
        /\ pc \in {"pdf_returned", "done"}
        /\ exitCode = (IF pc = "done" THEN 0 ELSE -1)
        /\ Cardinality(Calls("create_pdf")) = 1
        /\ Cardinality(Calls("get_story_from_gemini")) = 1
        /\ Cardinality(Calls("get_cover_image")) = 1
        /\ Cardinality(Calls("get_images_from_api")) = 1
        /\ Cardinality(Events("req", "story")) = 1
        /\ Cardinality(Events("req", "cover")) <= 1
        /\ pc = "done" => trace[Len(trace)] = Ev("ret", "create_pdf", 0)

\* main has returned after a render that an exception aborted
C23_Witness ==
    /\ pc = "done"
    /\ result = "False"
    /\ raised
    /\ Events("ret", "create_pdf") # {}

----------------------------------------------------------------------------
(* The output file name (main.py 87, 144) on its own.  The protagonist is  *)
(* what ask() returned: stripped of white space at both ends and not empty.*)

\* U+03D2 (Greek upsilon with hook symbol): an upper-case letter (category
\* Lu, str.isupper() is true) that has no lower-case form, so that
\* str.lower() leaves it as it is
UpsilonHook == "U+03D2"

\* the characters of a name; the space is the only white space among them
NameChars == {"S", "a", " ", "_", UpsilonHook}

\* the name of the test of the file name
SarahJaneSmith == <<"S", "a", "r", "a", "h", " ", "J", "a", "n", "e", " ", "S", "m", "i", "t", "h">>

\* what input(...).strip() can be when it is not empty
Stripped(name) == name # << >> /\ name[1] # " " /\ name[Len(name)] # " "

Protagonists ==
    {name \in SeqUpTo(NameChars, MaxNameLen) : Stripped(name)} \cup {SarahJaneSmith}

\* "_storybook.pdf"
FilenameSuffix == <<"_", "s", "t", "o", "r", "y", "b", "o", "o", "k", ".", "p", "d", "f">>

\* a mutant of OutputFilename: the name is not lower-cased
OutputFilenameAsTyped(protagonist) ==
    Replace(protagonist, " ", <<"_">>) \o FilenameSuffix

\* f"{protagonist.lower().replace(' ', '_')}_storybook.pdf"
OutputFilename(protagonist) ==
    Replace(Lower(protagonist), " ", <<"_">>) \o FilenameSuffix

\* main.py 144
MakeOutputFilename ==
    /\ filename.pc = "call"
    /\ filename' = [filename EXCEPT
                        !.pc = "made",
                        !.output_filename = OutputFilename(filename.protagonist)]
    /\ UNCHANGED <<piped, clean, theme, runs, block>>

InitFilename ==
    /\ pc = "filename"
    /\ GEMINI_API_KEY = TRUE
    /\ story_text = << >>
    /\ fs = << >>
    /\ MainIdle
    /\ PdfIdle
    /\ fault = "none"
    /\ replyLog = NoLog
    /\ font = FontIdle
    /\ fit = FitIdle
    /\ clean = CleanIdle
    /\ theme = ThemeIdle
    /\ runs = RunsIdle
    /\ block = BlockIdle
    /\ \E name \in Protagonists :
           filename = [pc |-> "call", protagonist |-> name,
                       output_filename |-> << >>]

NextFilename == MakeOutputFilename

SpecFilename == InitFilename /\ [][NextFilename]_vars

\* the upper-case letters among the characters of the model
UpperCaseLetters == Range(UpperLetters) \cup {UpsilonHook}

\* what one character of the name is to become
NameCharOut(ch) == IF ch = " " THEN "_" ELSE LowerChar(ch)

\* the file name is the name, character by character, and the suffix
FilenameFromNameAlone ==
    filename.output_filename =
        [j \in 1..Len(filename.protagonist)
            |-> NameCharOut(filename.protagonist[j])] \o FilenameSuffix

\* C24 as stated: the file name is the name lower-cased with '_' for every
\* space, followed by '_storybook.pdf', and for every name it contains no
\* space and no upper-case letter.
C24_Original ==
    filename.pc = "made" =>
        /\ FilenameFromNameAlone
        /\ " " \notin Range(filename.output_filename)
        /\ Range(filename.output_filename) \cap UpperCaseLetters = {}

\* C24 amended: the file name is the name lower-cased with '_' for every
\* space, followed by '_storybook.pdf'; it contains no space and no letter
\* that has a lower-case form different from itself (an upper-case letter
\* without a lower-case form stays).
C24_FilenameFromName ==
    filename.pc = "made" =>
        /\ FilenameFromNameAlone
        /\ " " \notin Range(filename.output_filename)
        /\ \A ch \in Range(filename.output_filename) : LowerChar(ch) = ch

\* 'Sarah Jane Smith' has become 'sarah_jane_smith_storybook.pdf'
C24_Witness ==
    /\ filename.pc = "made"
    /\ filename.protagonist = SarahJaneSmith
    /\ filename.output_filename =
           <<"s", "a", "r", "a", "h", "_", "j", "a", "n", "e", "_", "s", "m", "i", "t", "h">> \o
           <<"_", "s", "t", "o", "r", "y", "b", "o", "o", "k", ".", "p", "d", "f">>

----------------------------------------------------------------------------
(* main.py 5-28: the pre-flight check. *)

\* C25: if the credential is absent from the environment at startup, the
\* program ends with exit code 1 before any stage of the pipeline runs: no
\* user prompt, no story, cover or illustration request, no create_pdf call.
C25_MissingKeyExitsFirst ==
    ~envKey =>
        /\ pc \in {"preflight", "exit"}
        /\ exitCode = (IF pc = "exit" THEN 1 ELSE -1)
        /\ story_inputs = [end_message |-> << >>]
        /\ trace = << >>
        /\ fs = << >>
        /\ args = NoArgs /\ pages = << >> /\ result = "none"

\* the program has ended at the pre-flight check although api_clients holds
\* a key
C25_Witness ==
    /\ ~envKey
    /\ GEMINI_API_KEY
    /\ pc = "exit"
    /\ exitCode = 1
    /\ trace = << >>

----------------------------------------------------------------------------
(* Two runs of the pipeline in one working directory.  Each run has the    *)
(* key, a story of one page and an end message; it asks for its cover and  *)
(* its illustration, saves what it gets and then lays the book out         *)
(* (front cover, story page, back cover).  The steps of the two runs       *)
(* interleave; a step of create_pdf that opens, draws and removes a file   *)
(* is taken at once.                                                       *)

RunIds == {1, 2}

\* the bytes a run receives are tagged with the run
RunName(r) == <<"run1", "run2">>[r]

\* the MIME types of the images the model sends
RaceMimes == {<<"image", "png">>, <<"image", "jpeg">>}

\* a mutant of WorkingName: every run keeps its files in a directory of its own
WorkingNameScoped(r, name) == <<RunName(r)>> \o name

\* open(output_filename, 'wb'), os.path.exists, Image.open: a relative name
\* is a file of the working directory, whichever run uses it
WorkingName(r, name) == name

\* a run before its first request
RunStart ==
    [pc |-> "cover", cover_image_path |-> None, image_list |-> << >>,
     styled_img_path |-> None, front |-> << >>, image |-> << >>,
     back |-> << >>, result |-> "none"]

\* what a read of the layout engine found: the bytes, and how many writes
\* the directory had seen by then
ReadOf(data, log) == <<[data |-> data, at |-> Len(log)]>>

\* the history of writes: the name and the run whose bytes were written
Written(log, name, data) == Append(log, [name |-> name, src |-> data.src])

\* api_clients.py 68-84: the cover request and the save of the pattern
RaceGetCover(r) ==
    /\ runs.of[r].pc = "cover"
    /\ \/ \* no image in the reply, or an exception: return None
          runs' = [runs EXCEPT !.of[r].pc = "scene"]
       \/ \E mime \in RaceMimes :
              LET name == WorkingName(r, CoverFilename(mime))
                  data == Data(RunName(r), 0, "ok")
              IN  runs' = [runs EXCEPT
                              !.dir = WriteFile(runs.dir, name, data),
                              !.log = Written(runs.log, name, data),
                              !.of[r].cover_image_path = name,
                              !.of[r].pc = "scene"]

\* api_clients.py 137-164: the scene request of page 0 and the save
RaceGetImage(r) ==
    /\ runs.of[r].pc = "scene"
    /\ \/ \* no image in the reply, or an exception: the list stays empty
          runs' = [runs EXCEPT !.of[r].pc = "pdf_cover"]
       \/ \E mime \in RaceMimes :
              LET name == WorkingName(r, TempImageFilename(0, mime))
                  data == Data(RunName(r), 0, "ok")
              IN  runs' = [runs EXCEPT
                              !.dir = WriteFile(runs.dir, name, data),
                              !.log = Written(runs.log, name, data),
                              !.of[r].image_list = <<name>>,
                              !.of[r].pc = "pdf_cover"]

\* book_assembler.py 138-143: the front cover
RaceFrontCover(r) ==
    /\ runs.of[r].pc = "pdf_cover"
    /\ runs' = [runs EXCEPT
                    !.of[r].front =
                        IF HasCover(runs.dir, runs.of[r])
                        THEN ReadOf(runs.dir[runs.of[r].cover_image_path], runs.log)
                        ELSE << >>,
                    !.of[r].pc = "pdf_page"]

\* book_assembler.py 176-177: the image test and style_image_organic
RaceStyleImage(r) ==
    /\ runs.of[r].pc = "pdf_page"
    /\ IF ImageAvailable(runs.dir, runs.of[r].image_list, 0)
       THEN LET st == style_image_organic(runs.dir, runs.of[r].image_list[1], "none")
            IN  runs' = [runs EXCEPT
                            !.dir = st.fs,
                            !.log = IF st.saved = {} THEN runs.log
                                    ELSE Written(runs.log, st.path, st.fs[st.path]),
                            !.of[r].styled_img_path = st.path,
                            !.of[r].pc = "pdf_place"]
       ELSE runs' = [runs EXCEPT !.of[r].pc = "pdf_back"]

\* book_assembler.py 179-201: Image.open, pdf.image and os.remove of the
\* styled copy; a copy the other run has removed makes Image.open raise
RacePlaceImage(r) ==
    /\ runs.of[r].pc = "pdf_place"
    /\ LET path == runs.of[r].styled_img_path IN
       IF ~Exists(runs.dir, path)
       THEN runs' = [runs EXCEPT !.of[r].result = OnException.result,
                                 !.of[r].pc = "done"]
       ELSE runs' = [runs EXCEPT
                        !.of[r].image = ReadOf(runs.dir[path], runs.log),
                        !.dir = IF HasOrganic(path)
                                THEN RemoveFile(runs.dir, path)
                                ELSE runs.dir,
                        !.of[r].pc = "pdf_back"]

\* book_assembler.py 224-240: the back cover and the output
RaceBackCover(r) ==
    /\ runs.of[r].pc = "pdf_back"
    /\ runs' = [runs EXCEPT
                    !.of[r].back =
                        IF HasCover(runs.dir, runs.of[r])
                        THEN ReadOf(runs.dir[runs.of[r].cover_image_path], runs.log)
                        ELSE << >>,
                    !.of[r].result = "True",
                    !.of[r].pc = "done"]

RunStep ==
    /\ \E r \in RunIds :
           \/ RaceGetCover(r)
           \/ RaceGetImage(r)
           \/ RaceFrontCover(r)
           \/ RaceStyleImage(r)
           \/ RacePlaceImage(r)
           \/ RaceBackCover(r)
    /\ UNCHANGED <<piped, clean, theme, filename, block>>

InitRuns ==
    /\ pc = "runs"
    /\ GEMINI_API_KEY = TRUE
    /\ story_text = << >>
    /\ fs = << >>
    /\ MainIdle
    /\ PdfIdle
    /\ fault = "none"
    /\ replyLog = NoLog
    /\ font = FontIdle
    /\ fit = FitIdle
    /\ clean = CleanIdle
    /\ theme = ThemeIdle
    /\ filename = FilenameIdle
    /\ block = BlockIdle
    /\ runs = [dir |-> << >>, log |-> << >>, of |-> [r \in RunIds |-> RunStart]]

NextRuns == RunStep

SpecRuns == InitRuns /\ [][NextRuns]_vars

\* the reads the layout engine of run r has made, with the name read
LayoutReads(r) ==
    LET run == runs.of[r] IN
    {[name |-> run.cover_image_path, read |-> run.front[j]] : j \in 1..Len(run.front)}
    \cup {[name |-> run.cover_image_path, read |-> run.back[j]] : j \in 1..Len(run.back)}
    \cup {[name |-> run.styled_img_path, read |-> run.image[j]] : j \in 1..Len(run.image)}

\* the writes under a name among the first n writes
WritesBefore(name, n) == {j \in 1..n : runs.log[j].name = name}

\* the bytes read are those of the latest write under the name, of any run
ReadsLatestWrite(x) ==
    /\ WritesBefore(x.name, x.read.at) # {}
    /\ LET last == CHOOSE j \in WritesBefore(x.name, x.read.at) :
                       \A l \in WritesBefore(x.name, x.read.at) : l <= j
       IN  x.read.data.src = runs.log[last].src

\* the names a run saves under are the fixed ones, the same for every run
FixedNames ==
    \A r \in RunIds :
        /\ runs.of[r].cover_image_path \in
               {None} \cup {CoverFilename(mime) : mime \in RaceMimes}
        /\ \A j \in 1..Len(runs.of[r].image_list) :
               runs.of[r].image_list[j] \in
                   {TempImageFilename(j - 1, mime) : mime \in RaceMimes}

\* the other run
OtherRun(r) == 3 - r

\* C26: two runs in one working directory race on the fixed file names.
\* Both save under cover_pattern.<ext> and temp_image_<i>.<ext>, names that
\* do not depend on the run, and what the layout engine of a run reads under
\* a name is whatever was written there last, by either run; so in some
\* interleaving (the witness) the layout engine of one run reads a cover or
\* an illustration whose bytes the other run wrote.
C26_FixedNamesRace ==
    /\ FixedNames
    /\ \A r \in RunIds : \A x \in LayoutReads(r) : ReadsLatestWrite(x)

\* run 1 is done: its front cover and its illustration are bytes of run 2
C26_Witness ==
    /\ runs.of[1].pc = "done"
    /\ runs.of[1].result = "True"
    /\ runs.of[1].front # << >>
    /\ runs.of[1].front[1].data.src = RunName(OtherRun(1))
    /\ runs.of[1].image # << >>
    /\ runs.of[1].image[1].data.src = RunName(OtherRun(1))

\* the styled copy of a run was removed by the other run before it was
\* opened: the render of the run failed
RaceLostStyledCopy ==
    \E r \in RunIds : runs.of[r].pc = "done" /\ runs.of[r].result = "False"

----------------------------------------------------------------------------
(* get_images_from_api: a failure inside the loop (api_clients.py 105-164). *)

\* the page index in a name temp_image_<i>.<ext>
TempImagePage(path) == CHOOSE i \in 0..9 : IdxStr(i) = path[2]

\* the illustration files in the directory
TempImageFiles == {path \in DOMAIN fs : path[1] = "temp_image_"}

\* C27: if the scene request of page j throws or the write of its image
\* file fails, get_images_from_api does not raise: it returns the paths
\* saved for the pages before j (possibly none), and no scene request is
\* sent and no file written for a page after j.
C27_FailureReturnsPartialList ==
    \A j \in FailedPages :
        /\ pc \in {"images_return", "pdf_call"}
        /\ Events("raise", "get_images_from_api") = {}
        /\ generated_image_paths = IllustrationNames(j)
        /\ pc = "pdf_call" =>
               /\ ImagesReturned
               /\ returned.images = IllustrationNames(j)
        /\ ScenePagesRequested = [l \in 1..(j + 1) |-> l - 1]
        /\ \A path \in TempImageFiles : TempImagePage(path) <= j

\* two pages: the request of the first threw, the second was never asked
\* for, and the empty list came back
C27_Witness ==
    /\ ImagesReturned
    /\ Len(Split(story_text)) = 2
    /\ Events("throw", "scene") # {}
    /\ FailedPages = {0}
    /\ returned.images = << >>
    /\ SceneRequests(1) = {}

\* two pages: the first was saved, the write of the second failed, and the
\* path of the first came back
PartialListReturned ==
    /\ ImagesReturned
    /\ Events("writefail", "scene") # {}
    /\ FailedPages = {1}
    /\ returned.images = <<<<"temp_image_", "0", ".", "png">>>>

----------------------------------------------------------------------------
(* get_images_from_api with an empty story (api_clients.py 96-101). *)

\* C28 as stated: when the story text is empty, get_images_from_api returns
\* the empty list without opening an illustration session and without
\* sending a scene request or writing a file.
C28_EmptyStoryNoSession ==
    (GEMINI_API_KEY /\ story_text = << >>) =>
        /\ Events("session", "start_chat") = {}
        /\ Events("req", "scene") = {}
        /\ fs = << >>
        /\ Events("ret", "get_images_from_api") # {} => returned.images = << >>

----------------------------------------------------------------------------
(* get_images_from_api: the list it builds (api_clients.py 96-164). *)

\* path is a name temp_image_<i>.<ext>
IsTempImageName(path) ==
    /\ Len(path) = 4
    /\ path[1] = "temp_image_"
    /\ \E i \in 0..9 : path[2] = IdxStr(i)
    /\ path[3] = "."

\* the list: names temp_image_<i>.<ext>, pairwise distinct, the page
\* indices increasing, that of the entry at position j (from 0) at least j
WellFormedImageList(list, pageCount) ==
    /\ Len(list) <= pageCount
    /\ \A j \in 1..Len(list) :
           /\ IsTempImageName(list[j])
           /\ TempImagePage(list[j]) >= j - 1
           /\ TempImagePage(list[j]) < pageCount
    /\ \A j, l \in 1..Len(list) :
           j < l => /\ TempImagePage(list[j]) < TempImagePage(list[l])
                    /\ list[j] # list[l]

\* C29: after any scene replies (with image, without, or throwing) the list
\* of get_images_from_api is no longer than the number of story pages, its
\* entries are pairwise distinct names temp_image_<i>.<ext> with strictly
\* increasing page indices, the entry at position j has page index i >= j,
\* and every file of the list still holds what was written for its page:
\* no later page of the call has overwritten it.
C29_ImageListDistinctIncreasing ==
    /\ WellFormedImageList(generated_image_paths, Len(story_pages))
    /\ \A j \in 1..Len(generated_image_paths) :
           LET path == generated_image_paths[j] IN
           /\ Exists(fs, path)
           /\ fs[path].src = "scene"
           /\ fs[path].page = TempImagePage(path)
    /\ Events("ret", "get_images_from_api") # {} =>
           WellFormedImageList(returned.images, Len(Split(story_text)))

\* two pages, both saved, in two formats: the list of two names came back
C29_Witness ==
    /\ ImagesReturned
    /\ Len(returned.images) = 2
    /\ returned.images[1][4] # returned.images[2][4]
    /\ Len(replyLog.log) = 2

----------------------------------------------------------------------------
(* The text block of a story page (book_assembler.py 203-219) on its own,  *)
(* with the call of calculate_optimal_font_size it makes.  Lengths are in  *)
(* hundredths of a millimetre; text_y_start, which halves a length, is     *)
(* kept doubled.  The number of lines the page text wraps to is FPDF's     *)
(* answer for the font size set: it is drawn for each size, and a smaller  *)
(* size never gives more lines than a larger one gave.                     *)

\* space_below = PAGE_SIZE_MM - (frame_y + sq_size) - 15
space_below == PAGE_SIZE_MM - (frame_y + sq_size) - 15

\* line 208, in calculate_optimal_font_size: one pass of the while loop at
\* max_height = space_below
BlockFontTry ==
    /\ block.pc = "loop"
    /\ block.size >= FontMinSize
    /\ \E num_lines \in 0..block.num_lines :
           IF FontFits(num_lines, block.size, space_below)
           THEN block' = [block EXCEPT
                             !.pc = "sized",
                             !.num_lines = num_lines,
                             !.opt_size = block.size,
                             !.line_height = LineHeight100(block.size)]
           ELSE block' = [block EXCEPT !.num_lines = num_lines,
                                       !.size = block.size - 1]

\* line 208, in calculate_optimal_font_size: return min_size, (min_size * 0.45)
BlockFontFallback ==
    /\ block.pc = "loop"
    /\ block.size < FontMinSize
    /\ block' = [block EXCEPT
                     !.pc = "sized",
                     !.opt_size = FontMinSize,
                     !.line_height = LineHeight100(FontMinSize)]

\* lines 210-219: the font set last is opt_size, so multi_cell wraps to the
\* lines counted at that size; block_height, text_y_start (doubled), the draw
BlockDraw ==
    /\ block.pc = "sized"
    /\ LET block_height == block.num_lines * block.line_height IN
       block' = [block EXCEPT
                    !.pc = "drawn",
                    !.block_height = block_height,
                    !.text_y_start =
                        2 * 100 * (frame_y + sq_size)
                            + (100 * space_below - block_height)]

TextBlock ==
    /\ BlockFontTry \/ BlockFontFallback \/ BlockDraw
    /\ UNCHANGED <<piped, clean, theme, filename, runs>>

InitBlock ==
    /\ pc = "block"
    /\ GEMINI_API_KEY = TRUE
    /\ story_text = << >>
    /\ fs = << >>
    /\ MainIdle
    /\ PdfIdle
    /\ fault = "none"
    /\ replyLog = NoLog
    /\ font = FontIdle
    /\ fit = FitIdle
    /\ clean = CleanIdle
    /\ theme = ThemeIdle
    /\ filename = FilenameIdle
    /\ runs = RunsIdle
    /\ block = [BlockIdle EXCEPT !.pc = "loop", !.size = FontStartSize,
                                 !.num_lines = MaxWrapLines]

NextBlock == TextBlock

SpecBlock == InitBlock /\ [][NextBlock]_vars

\* the top and the bottom of the text block, doubled hundredths of a mm
BlockTop2 == block.text_y_start
BlockBottom2 == block.text_y_start + 2 * block.block_height

\* the bottom of the image frame (y = 155) and the bottom margin (y = 195)
RegionTop2 == 2 * 100 * (frame_y + sq_size)
RegionBottom2 == 2 * 100 * (PAGE_SIZE_MM - 15)

\* C30 as stated: for every page text the text block (wrapped line count
\* times the line height of calculate_optimal_font_size) is vertically
\* centred in, and lies entirely inside, the 40 mm region between the bottom
\* of the image frame (y = 155) and the bottom margin (y = 195).
C30_TextBlockInsideRegion ==
    block.pc = "drawn" =>
        /\ BlockTop2 - RegionTop2 = RegionBottom2 - BlockBottom2
        /\ BlockTop2 >= RegionTop2
        /\ BlockBottom2 <= RegionBottom2

\* the block is centred in the region for every text, and inside it when
\* the text fitted at one of the sizes 18 to 10
BlockCentredAndInsideIfFits ==
    block.pc = "drawn" =>
        /\ BlockTop2 - RegionTop2 = RegionBottom2 - BlockBottom2
        /\ FontFits(block.num_lines, block.opt_size, space_below)
               => (BlockTop2 >= RegionTop2 /\ BlockBottom2 <= RegionBottom2)

\* a text of 4 lines at size 18 was drawn from y = 158.8 to y = 191.2
BlockDrawnInside ==
    /\ block.pc = "drawn"
    /\ block.opt_size = 18
    /\ block.num_lines = 4
    /\ BlockTop2 = 31760
    /\ BlockBottom2 = 38240

====
